---- MODULE Spec2Model ----
(***************************************************************************)
(* smcprober: the metric registry (metric.NamespacedRegistry and the       *)
(* earlier metric.Registry variant), the converter dispatch                *)
(* (metric.CombinedConverter), the rule engine (alert.AlertingEngine), the *)
(* poll loop of smartcitizen.APIExporter, the sensor converter with its    *)
(* name mapping, and the startup of the two commands.                      *)
(*                                                                         *)
(* Each component has its own specification over the shared variable list; *)
(* a component's specification leaves the other components' variables at   *)
(* their initial values.                                                    *)
(***************************************************************************)
EXTENDS Integers, Sequences, FiniteSets, TLC

(***************************************************************************)
(* Bounds of the model.                                                    *)
(***************************************************************************)
NumThreads == 2
MaxCollectors == 2

Threads == 1..NumThreads

\* no holder of the write lock (the zero value of sync.RWMutex)
None == 0

\* the thread of the poll loop, as a holder of a lock
Poller == "poller"

(***************************************************************************)
(* State.                                                                  *)
(***************************************************************************)
VARIABLES
    \* metric.NamespacedRegistry and its callers
    collectors,   \* NamespacedRegistry.collectors: name -> collector
    mu,           \* NamespacedRegistry.mu: readers and writer holding it
    exposition,   \* the default prometheus registerer: registered collectors
    pc,           \* per thread: position inside GetOrCreate<Kind> / Register
    call,         \* per thread: arguments and locals of the running call
    lastHit,      \* history: the last GetOrCreate<Kind> call that found its name
    nextId,       \* identity of the next collector instance constructed
    panicked,     \* an unrecovered panic ended the process
    returned,     \* history: per name, instances returned by GetOrCreate<Kind>
    regErrors,    \* history: instances whose prometheus.Register failed
    firstStored,  \* history: per name, the first instance put in the map
    \* metric.Registry (the variant with converters), ConvertAndRegister
    lpc,          \* position inside ConvertAndRegister
    lmatched,     \* converters still to run for this call
    lmetric,      \* the collector the current converter built
    lresult,      \* what the last ConvertAndRegister returned
    \* metric.CombinedConverter and its callers
    converters,   \* CombinedConverter.converters
    cmu,          \* CombinedConverter.mu
    regOrder,     \* history: converters in the order they were registered
    cpc,          \* the poll loop: position inside Convert
    cdata,        \* the value being converted
    cidx,         \* index of the range loop over c.converters
    csnap,        \* history: regOrder when Convert took the lock
    cinvoked,     \* history: converters whose Convert was called
    cret,         \* what Convert returned
    cwrites,      \* history: converters whose Convert wrote to the registry
    cerr,         \* the converter whose error Convert returned
    \* alert.AlertingEngine and evaluateDevice
    rules,        \* AlertingEngine.rules: id -> rule
    emu,          \* AlertingEngine.mu
    epc,          \* the poll loop: position inside evaluateDevice / Evaluate
    ecycle,       \* the metrics evaluateDevice iterates over
    eidx,         \* index of the loop of evaluateDevice
    emetric,      \* the argument of the running Evaluate
    etodo,        \* rules the range loop has not visited yet
    ecur,         \* the rule of the current iteration
    esnap,        \* history: the rules when Evaluate took the lock
    econd,        \* history: per rule, Condition calls in this Evaluate
    efired,       \* history: per rule, Action calls in this Evaluate
    eerrs,        \* history: rules whose Action returned an error
    edone,        \* history: metrics whose Evaluate has returned
    eprev,        \* history: per rule, whether its action was invoked in the
                  \* last Evaluate call that applied its condition
    elast,        \* history: the last AddRule / RemoveRule call
    erun,         \* history: what the last rule.Action call invoked
    \* smartcitizen.APIExporter: Start and one fetch-convert cycle
    xpc,          \* the goroutine of Start: position
    xctx,         \* ctx: cancellation has been requested
    xtick,        \* ticker.C holds a tick
    xcycle,       \* history: updateMetrics calls started
    xfetched,     \* fetchAPIData: result.Devices
    xdi,          \* index of the device loop (fetch, then conversion)
    xsi,          \* index of the sensor loop
    xvalues,      \* per device record / sensor: state of its metric
    xcounters,    \* the counters the exporter increments
    xbefore,      \* history: xcounters when the cycle began
    xfailed,      \* history: items whose conversion failed in this cycle
    xfetchFailed, \* history: fetchAPIData returned an error in this cycle
    xlog,         \* history: the provider calls of this cycle, in order
    xprevFailed,  \* history: the fetch of the previous cycle failed
    \* smartcitizen.DeviceSensorConverter with metric.SensorMetricMapping
    sitems,       \* SensorMetricMapping.items: sensor name -> item
    sadded,       \* history: the names SensorMetricMapping.Add was given
    sgauges,      \* the gauges of the registry: <<metric, labels>> -> value
    spc,          \* the poll loop: position inside Convert
    scur,         \* the locals of the running Convert
    slatest,      \* history: per label set, the most recent conversion
    slast,        \* history: the Convert call that has just returned
    \* metric.SensorMetricMapping and the threads calling Add / Get
    mitems,       \* SensorMetricMapping.items: sensor name -> item
    mmu,          \* SensorMetricMapping.mu
    mpc,          \* per thread: position inside Add / Get
    mcall,        \* per thread: arguments and result of the running call
    mseen,        \* history: per Get call, the entries its name had since
                  \* the call began
    \* a rule condition and DeviceDetail.StateValue applied to inputs
    tcond,        \* the condition a builder of rule.go returned
    tmetric,      \* the metric the condition is applied to
    tpc,          \* whether the condition has been applied to tmetric
    tholds,       \* what the condition returned
    tprev,        \* history: the previous metric and what was returned
    tstate,       \* DeviceDetail.State
    tvalue,       \* what StateValue returned for it
    \* cmd/smcjob: initAlertEngine and evaluateDevice
    jrules,       \* the rules of the engine the job built
    jpc,          \* main: position
    jdevice,      \* the device evaluateDevice was given
    jcycle,       \* evaluateDevice: metrics
    jidx,         \* index of the loop of evaluateDevice
    jtodo,        \* Evaluate: rules the range loop has not visited yet
    jfired,       \* history: per rule, Action calls in this Evaluate
    jnotified,    \* history: per rule, notify calls in this Evaluate
    jdone,        \* history: the metrics Evaluate was called with
    \* cmd/smcexporter: the startup of main
    bpc,          \* main: position
    benv,         \* what the process finds in its environment
    bexit,        \* the exit code, once the process has exited
    bstarted,     \* go exporter.Start has been executed
    \* alert.AlertingEngine called from inside its callbacks
    qrules,       \* AlertingEngine.rules: id -> rule
    qmu,          \* AlertingEngine.mu: readers, writer, announced writer
    qpc,          \* per goroutine: position
    qstack,       \* the Evaluate calls of the poll loop, innermost last
    qarg,         \* per goroutine: the AddRule / RemoveRule call it makes
    \* smartcitizen.APIExporter.Start, the cycles not counted
    ypc,          \* the goroutine of Start: position
    yctx,         \* ctx: cancellation has been requested
    ytick,        \* ticker.C holds a tick
    ycall,        \* fetchAPIData: the provider call in flight
    yfailed,      \* fetchAPIData returned an error in this cycle
    ylate         \* history: cycles begun after cancel(), up to MaxLate

regVars == <<collectors, mu, exposition, pc, call, lastHit, nextId,
             panicked, returned, regErrors, firstStored>>

legacyVars == <<lpc, lmatched, lmetric, lresult>>

convVars == <<converters, cmu, regOrder, cpc, cdata, cidx, csnap, cinvoked, cret,
             cwrites, cerr>>

alertVars == <<rules, emu, epc, ecycle, eidx, emetric, etodo, ecur, esnap,
               econd, efired, eerrs, edone, eprev, elast, erun>>

exportVars == <<xpc, xctx, xtick, xcycle, xfetched, xdi, xsi, xvalues,
                xcounters, xbefore, xfailed, xfetchFailed, xlog, xprevFailed>>

sensorVars == <<sitems, sadded, sgauges, spc, scur, slatest, slast>>

mappingVars == <<mitems, mmu, mpc, mcall, mseen>>

conditionVars == <<tcond, tmetric, tpc, tholds, tprev, tstate, tvalue>>

jobVars == <<jrules, jpc, jdevice, jcycle, jidx, jtodo, jfired, jnotified,
             jdone>>

bootVars == <<bpc, benv, bexit, bstarted>>

reentryVars == <<qrules, qmu, qpc, qstack, qarg>>

loopVars == <<ypc, yctx, ytick, ycall, yfailed, ylate>>

vars == <<regVars, legacyVars, convVars, alertVars, exportVars, sensorVars,
          mappingVars, conditionVars, jobVars, bootVars, reentryVars,
          loopVars>>

\* what the actions of one component leave alone
notRegistry == <<legacyVars, convVars, alertVars, exportVars, sensorVars,
                 mappingVars, conditionVars, jobVars, bootVars,
  reentryVars, loopVars>>

notLegacy == <<collectors, mu, pc, call, lastHit, panicked, returned,
               regErrors, firstStored, convVars, alertVars, exportVars,
               sensorVars, mappingVars, conditionVars, jobVars, bootVars,
  reentryVars, loopVars>>

notConverter == <<regVars, legacyVars, alertVars, exportVars, sensorVars,
                  mappingVars, conditionVars, jobVars, bootVars,
  reentryVars, loopVars>>

notAlert == <<regVars, legacyVars, convVars, exportVars, sensorVars,
              mappingVars, conditionVars, jobVars, bootVars,
  reentryVars, loopVars>>

notExporter == <<regVars, legacyVars, convVars, alertVars, sensorVars,
                 mappingVars, conditionVars, jobVars, bootVars,
  reentryVars, loopVars>>

notSensor == <<regVars, legacyVars, convVars, alertVars, exportVars,
               mappingVars, conditionVars, jobVars, bootVars,
  reentryVars, loopVars>>

notMapping == <<regVars, legacyVars, convVars, alertVars, exportVars,
                sensorVars, conditionVars, jobVars, bootVars,
  reentryVars, loopVars>>

notCondition == <<regVars, legacyVars, convVars, alertVars, exportVars,
                  sensorVars, mappingVars, jobVars, bootVars,
  reentryVars, loopVars>>

notJob == <<regVars, legacyVars, convVars, alertVars, exportVars, sensorVars,
            mappingVars, conditionVars, bootVars,
  reentryVars, loopVars>>

notBoot == <<regVars, legacyVars, convVars, alertVars, exportVars, sensorVars,
             mappingVars, conditionVars, jobVars, reentryVars, loopVars>>

notReentry == <<regVars, legacyVars, convVars, alertVars, exportVars,
                sensorVars, mappingVars, conditionVars, jobVars, bootVars,
                loopVars>>

notLoop == <<regVars, legacyVars, convVars, alertVars, exportVars,
             sensorVars, mappingVars, conditionVars, jobVars, bootVars,
             reentryVars>>

(***************************************************************************)
(* ----------------------- metric.NamespacedRegistry --------------------- *)
(***************************************************************************)
Namespace == "smartcitizen"

Names == {"a", "b"}

ScalarKinds == {"Gauge", "Counter", "Histogram"}

VecKinds == {"GaugeVec", "CounterVec", "HistogramVec"}

Kinds == ScalarKinds \cup VecKinds

\* the GetOrCreate<Kind> calls drawn: the six methods are one template, taken
\* here for a scalar kind, a vector kind under two label schemas and a second
\* vector kind
Requests ==
    {[kind |-> "Gauge", labels |-> <<>>],
     [kind |-> "GaugeVec", labels |-> <<"device">>],
     [kind |-> "GaugeVec", labels |-> <<"device", "sensor">>],
     [kind |-> "CounterVec", labels |-> <<"device">>]}

\* fully-qualified names of collectors handed to Register directly
ForeignFQs == {"other_x", "other_y"}

NoCollector == [id |-> 0, kind |-> "none", fq |-> "", labels |-> <<>>]

NoCall == [op |-> "none", kind |-> "none", name |-> "", labels |-> <<>>,
           coll |-> NoCollector]

NoHit == [name |-> "", kind |-> "none", labels |-> <<>>, coll |-> NoCollector]

\* prometheus fully-qualified name: namespace and name joined by "_"
FQName(ns, name) == ns \o "_" \o name

\* prometheus.New<Kind>(Opts{Namespace, Name, Help}, labels)
NewCollector(id, kind, name, labels) ==
    [id |-> id, kind |-> kind, fq |-> FQName(Namespace, name), labels |-> labels]

\* prometheus.Register: a descriptor with the same fully-qualified name is
\* refused, as AlreadyRegisteredError when the label schema is the same too
PromRegister(expo, c) ==
    IF \E e \in expo : e.fq = c.fq /\ e.kind = c.kind /\ e.labels = c.labels
        THEN "already"
    ELSE IF \E e \in expo : e.fq = c.fq
        THEN "inconsistent"
    ELSE "ok"

\* r.collectors[name] read inside GetCollectorByName
Lookup(m, name) == [collector |-> m[name], exists |-> m[name] # NoCollector]

\* the type assertion of GetOrCreate<Kind> on a found collector, which
\* panics when the collector is of another kind
TypeAssertOk(c, kind) == c.kind = kind

\* a mutation of GetOrCreateFound: the call builds and returns its own collector
GetOrCreateFoundFresh(stored, fresh) == fresh

\* what GetOrCreate<Kind> returns when its lookup finds the name
GetOrCreateFound(stored, fresh) == stored

\* a mutation of Exposed: the collector is accepted and not exposed
ExposedNot(expo, c) == expo

\* the default registerer after a prometheus.Register that succeeded
Exposed(expo, c) == expo \cup {c}

\* collector instances are numbered 1..MaxCollectors: a call starts only while
\* an instance is left for it and for every caller about to construct one
CanConstruct ==
    nextId + Cardinality({q \in Threads : pc[q] \in {"goc_rlock", "goc_read"}})
        <= MaxCollectors

RLockFree(m) == m.writer = None

\* a mutation of LockFree: the readers are not waited for
LockFreeOfWriters(m) == m.writer = None

LockFree(m) == m.writer = None /\ m.readers = {}

RegInit ==
    /\ collectors = [n \in Names |-> NoCollector]
    /\ mu = [readers |-> {}, writer |-> None]
    /\ exposition = {}
    /\ pc = [p \in Threads |-> "idle"]
    /\ call = [p \in Threads |-> NoCall]
    /\ lastHit = NoHit
    /\ nextId = 1
    /\ panicked = FALSE
    /\ returned = [n \in Names |-> {}]
    /\ regErrors = {}
    /\ firstStored = [n \in Names |-> NoCollector]

\* a thread enters GetOrCreate<Kind>(name, help, labels)
GetOrCreate(p, kind, name, labels) ==
    /\ ~panicked
    /\ pc[p] = "idle"
    /\ CanConstruct
    /\ call' = [call EXCEPT ![p] = [op |-> "GetOrCreate", kind |-> kind,
                                    name |-> name, labels |-> labels,
                                    coll |-> NoCollector]]
    /\ pc' = [pc EXCEPT ![p] = "goc_rlock"]
    /\ UNCHANGED <<collectors, mu, exposition, lastHit, nextId, panicked,
                   returned, regErrors, firstStored>>
    /\ UNCHANGED notRegistry

\* a thread enters Register(name, collector) with a collector of its own
Register(p, name, kind, fq) ==
    /\ ~panicked
    /\ pc[p] = "idle"
    /\ CanConstruct
    /\ call' = [call EXCEPT ![p] = [op |-> "Register", kind |-> kind,
                                    name |-> name, labels |-> <<>>,
                                    coll |-> [id |-> nextId, kind |-> kind,
                                              fq |-> fq, labels |-> <<>>]]]
    /\ nextId' = nextId + 1
    /\ pc' = [pc EXCEPT ![p] = "reg_rlock"]
    /\ UNCHANGED <<collectors, mu, exposition, lastHit, panicked, returned,
                   regErrors, firstStored>>
    /\ UNCHANGED notRegistry

\* GetCollectorByName, r.mu.RLock(), called from GetOrCreate<Kind>
GocRLock(p) ==
    /\ ~panicked
    /\ pc[p] = "goc_rlock"
    /\ RLockFree(mu)
    /\ mu' = [mu EXCEPT !.readers = @ \cup {p}]
    /\ pc' = [pc EXCEPT ![p] = "goc_read"]
    /\ UNCHANGED <<collectors, exposition, call, lastHit, nextId, panicked,
                   returned, regErrors, firstStored>>
    /\ UNCHANGED notRegistry

\* GetCollectorByName returns (RUnlock); found with the requested kind:
\* GetOrCreate<Kind> returns the stored collector
GocFound(p) ==
    /\ ~panicked
    /\ pc[p] = "goc_read"
    /\ Lookup(collectors, call[p].name).exists
    /\ TypeAssertOk(Lookup(collectors, call[p].name).collector, call[p].kind)
    /\ mu' = [mu EXCEPT !.readers = @ \ {p}]
    /\ LET c == GetOrCreateFound(Lookup(collectors, call[p].name).collector,
                                 NewCollector(nextId, call[p].kind,
                                              call[p].name, call[p].labels))
       IN /\ lastHit' = [name |-> call[p].name, kind |-> call[p].kind,
                          labels |-> call[p].labels, coll |-> c]
          /\ returned' = [returned EXCEPT ![call[p].name] = @ \cup {c.id}]
    /\ call' = [call EXCEPT ![p] = NoCall]
    /\ pc' = [pc EXCEPT ![p] = "idle"]
    /\ UNCHANGED <<collectors, exposition, nextId, panicked,
                   regErrors, firstStored>>
    /\ UNCHANGED notRegistry

\* found under another kind: the type assertion panics
GocFoundOtherKind(p) ==
    /\ ~panicked
    /\ pc[p] = "goc_read"
    /\ Lookup(collectors, call[p].name).exists
    /\ ~TypeAssertOk(Lookup(collectors, call[p].name).collector, call[p].kind)
    /\ mu' = [mu EXCEPT !.readers = @ \ {p}]
    /\ panicked' = TRUE
    /\ pc' = [pc EXCEPT ![p] = "panic"]
    /\ UNCHANGED <<collectors, exposition, call, lastHit, nextId,
                   returned, regErrors, firstStored>>
    /\ UNCHANGED notRegistry

\* not found: the caller constructs a collector and calls Register
GocMissing(p) ==
    /\ ~panicked
    /\ pc[p] = "goc_read"
    /\ ~Lookup(collectors, call[p].name).exists
    /\ mu' = [mu EXCEPT !.readers = @ \ {p}]
    /\ call' = [call EXCEPT ![p].coll =
                   NewCollector(nextId, call[p].kind, call[p].name,
                                call[p].labels)]
    /\ nextId' = nextId + 1
    /\ pc' = [pc EXCEPT ![p] = "reg_rlock"]
    /\ UNCHANGED <<collectors, exposition, lastHit, panicked, returned,
                   regErrors, firstStored>>
    /\ UNCHANGED notRegistry

\* the end of a call: GetOrCreate<Kind> hands its own collector to the caller,
\* Register returns nothing
Return(p) ==
    /\ returned' = IF call[p].op = "GetOrCreate"
                   THEN [returned EXCEPT ![call[p].name] = @ \cup {call[p].coll.id}]
                   ELSE returned
    /\ call' = [call EXCEPT ![p] = NoCall]
    /\ pc' = [pc EXCEPT ![p] = "idle"]
    /\ lastHit' = lastHit

\* Register: GetCollectorByName, r.mu.RLock()
RegRLock(p) ==
    /\ ~panicked
    /\ pc[p] = "reg_rlock"
    /\ RLockFree(mu)
    /\ mu' = [mu EXCEPT !.readers = @ \cup {p}]
    /\ pc' = [pc EXCEPT ![p] = "reg_read"]
    /\ UNCHANGED <<collectors, exposition, call, lastHit, nextId, panicked,
                   returned, regErrors, firstStored>>
    /\ UNCHANGED notRegistry

\* Register: the name exists by now, return without registering
RegExists(p) ==
    /\ ~panicked
    /\ pc[p] = "reg_read"
    /\ Lookup(collectors, call[p].name).exists
    /\ mu' = [mu EXCEPT !.readers = @ \ {p}]
    /\ Return(p)
    /\ UNCHANGED <<collectors, exposition, nextId, panicked,
                   regErrors, firstStored>>
    /\ UNCHANGED notRegistry

\* Register: the name is still missing, go on to prometheus.Register
RegMissing(p) ==
    /\ ~panicked
    /\ pc[p] = "reg_read"
    /\ ~Lookup(collectors, call[p].name).exists
    /\ mu' = [mu EXCEPT !.readers = @ \ {p}]
    /\ pc' = [pc EXCEPT ![p] = "reg_prom"]
    /\ UNCHANGED <<collectors, exposition, call, lastHit, nextId, panicked,
                   returned, regErrors, firstStored>>
    /\ UNCHANGED notRegistry

\* Register: prometheus.Register succeeds
RegPromOk(p) ==
    /\ ~panicked
    /\ pc[p] = "reg_prom"
    /\ PromRegister(exposition, call[p].coll) = "ok"
    /\ exposition' = Exposed(exposition, call[p].coll)
    /\ pc' = [pc EXCEPT ![p] = "reg_lock"]
    /\ UNCHANGED <<collectors, mu, call, lastHit, nextId, panicked,
                   returned, regErrors, firstStored>>
    /\ UNCHANGED notRegistry

\* Register: prometheus.Register fails, the error is logged and Register returns
RegPromFail(p) ==
    /\ ~panicked
    /\ pc[p] = "reg_prom"
    /\ PromRegister(exposition, call[p].coll) # "ok"
    /\ regErrors' = regErrors \cup {call[p].coll.id}
    /\ Return(p)
    /\ UNCHANGED <<collectors, mu, exposition, nextId, panicked,
                   firstStored>>
    /\ UNCHANGED notRegistry

\* Register: r.mu.Lock()
RegLock(p) ==
    /\ ~panicked
    /\ pc[p] = "reg_lock"
    /\ LockFree(mu)
    /\ mu' = [mu EXCEPT !.writer = p]
    /\ pc' = [pc EXCEPT ![p] = "reg_store"]
    /\ UNCHANGED <<collectors, exposition, call, lastHit, nextId, panicked,
                   returned, regErrors, firstStored>>
    /\ UNCHANGED notRegistry

\* Register: r.collectors[name] = collector, then the deferred Unlock
RegStore(p) ==
    /\ ~panicked
    /\ pc[p] = "reg_store"
    /\ collectors' = [collectors EXCEPT ![call[p].name] = call[p].coll]
    /\ firstStored' = IF firstStored[call[p].name] = NoCollector
                      THEN [firstStored EXCEPT ![call[p].name] = call[p].coll]
                      ELSE firstStored
    /\ mu' = [mu EXCEPT !.writer = None]
    /\ Return(p)
    /\ UNCHANGED <<exposition, nextId, panicked, regErrors>>
    /\ UNCHANGED notRegistry

GetOrCreateCall(p) ==
    \E req \in Requests, name \in Names :
        GetOrCreate(p, req.kind, name, req.labels)

RegisterCall(p) ==
    \E name \in Names, fq \in ForeignFQs : Register(p, name, "Gauge", fq)

(***************************************************************************)
(* ------------- metric.Registry, the variant with converters ------------ *)
(* ConvertAndRegister runs on the poll loop; it shares the default         *)
(* prometheus registerer (exposition).                                     *)
(***************************************************************************)
MaxConversions == 5

TypeTags == {"DeviceDetail", "DeviceSensor"}

\* the converters given to AddConverters: what each matches and the
\* descriptor of the metric its Convert builds
LegacyConverters ==
    <<[name |-> "device_info", tags |-> {"DeviceDetail"},
       fq |-> "smartcitizen_device_info", labels |-> <<"device">>],
      [name |-> "device_sensor", tags |-> {"DeviceSensor"},
       fq |-> "smartcitizen_device_sensor", labels |-> <<"device", "sensor">>],
      [name |-> "device_sensor_info", tags |-> {"DeviceSensor"},
       fq |-> "smartcitizen_device_sensor", labels |-> <<"device">>]>>

LegacyInit ==
    /\ lpc = "idle"
    /\ lmatched = <<>>
    /\ lmetric = NoCollector
    /\ lresult = "none"

\* getMatchingConverters: the converters whose Match(name) holds, in order
getMatchingConverters(convs, name) ==
    SelectSeq(convs, LAMBDA c : name \in c.tags)

\* ConvertAndRegister on AlreadyRegisteredError: Unregister(ExistingCollector)
\* and MustRegister(metric)
OnAlreadyRegistered(expo, metric) ==
    {e \in expo : ~(e.fq = metric.fq /\ e.kind = metric.kind
                    /\ e.labels = metric.labels)} \cup {metric}

\* ConvertAndRegister(name, data): pick the matching converters
ConvertAndRegister(name) ==
    /\ ~panicked
    /\ lpc = "idle"
    /\ nextId + Len(getMatchingConverters(LegacyConverters, name))
           <= MaxConversions + 1
    /\ LET m == getMatchingConverters(LegacyConverters, name)
       IN IF Len(m) = 0
          THEN /\ lresult' = "nil"
               /\ UNCHANGED <<lpc, lmatched>>
          ELSE /\ lmatched' = m
               /\ lpc' = "convert"
               /\ lresult' = "none"
    /\ UNCHANGED <<lmetric, exposition, nextId>>
    /\ UNCHANGED notLegacy

\* converter.Convert(data) fails: ConvertAndRegister returns the error
LegacyConvertErr ==
    /\ lpc = "convert"
    /\ lresult' = "err"
    /\ lpc' = "idle"
    /\ lmatched' = <<>>
    /\ UNCHANGED <<lmetric, exposition, nextId>>
    /\ UNCHANGED notLegacy

\* converter.Convert(data) builds a metric
LegacyConvertOk ==
    /\ lpc = "convert"
    /\ lmetric' = [id |-> nextId, kind |-> "Gauge", fq |-> Head(lmatched).fq,
                   labels |-> Head(lmatched).labels]
    /\ nextId' = nextId + 1
    /\ lpc' = "register"
    /\ UNCHANGED <<lmatched, lresult, exposition>>
    /\ UNCHANGED notLegacy

LegacyNextConverter ==
    /\ lmatched' = Tail(lmatched)
    /\ lmetric' = NoCollector
    /\ IF Len(lmatched) = 1
       THEN lpc' = "idle" /\ lresult' = "nil"
       ELSE lpc' = "convert" /\ lresult' = lresult

\* prometheus.Register(metric) succeeds
LegacyRegisterOk ==
    /\ lpc = "register"
    /\ PromRegister(exposition, lmetric) = "ok"
    /\ exposition' = exposition \cup {lmetric}
    /\ LegacyNextConverter
    /\ nextId' = nextId
    /\ UNCHANGED notLegacy

\* prometheus.Register(metric) reports AlreadyRegisteredError
LegacyRegisterAlready ==
    /\ lpc = "register"
    /\ PromRegister(exposition, lmetric) = "already"
    /\ exposition' = OnAlreadyRegistered(exposition, lmetric)
    /\ LegacyNextConverter
    /\ nextId' = nextId
    /\ UNCHANGED notLegacy

\* prometheus.Register(metric) fails otherwise: logged and returned
LegacyRegisterErr ==
    /\ lpc = "register"
    /\ PromRegister(exposition, lmetric) = "inconsistent"
    /\ lresult' = "err"
    /\ lpc' = "idle"
    /\ lmatched' = <<>>
    /\ lmetric' = NoCollector
    /\ UNCHANGED <<exposition, nextId>>
    /\ UNCHANGED notLegacy

(***************************************************************************)
(* ------------------------ metric.CombinedConverter --------------------- *)
(***************************************************************************)
MaxConverters == 3

\* values handed to Convert: the package and name of the dynamic type, and
\* whether the value is a pointer to it
DataValues ==
    {[pkg |-> "smartcitizen", name |-> "DeviceDetail", ptr |-> FALSE],
     [pkg |-> "smartcitizen", name |-> "DeviceSensor", ptr |-> FALSE],
     [pkg |-> "smartcitizen", name |-> "DeviceSensor", ptr |-> TRUE],
     [pkg |-> "other", name |-> "DeviceDetail", ptr |-> FALSE],
     [pkg |-> "smartcitizen", name |-> "User", ptr |-> FALSE]}

NoData == [pkg |-> "", name |-> "", ptr |-> FALSE]

\* the converters of package smartcitizen: the tag each Match accepts and the
\* type its Convert asserts
ConverterPool ==
    {[id |-> "DeviceInfoConverter", tag |-> "DeviceDetail",
      pkg |-> "smartcitizen"],
     [id |-> "DeviceStateConverter", tag |-> "DeviceDetail",
      pkg |-> "smartcitizen"],
     [id |-> "DeviceSensorConverter", tag |-> "DeviceSensor",
      pkg |-> "smartcitizen"],
     \* a converter of another package, for that package's DeviceDetail
     [id |-> "OtherDetailConverter", tag |-> "DeviceDetail",
      pkg |-> "other"]}

\* the argument lists Add is given
AddArgs ==
    {<<c>> : c \in ConverterPool} \cup
    {<<[id |-> "DeviceStateConverter", tag |-> "DeviceDetail",
        pkg |-> "smartcitizen"],
       [id |-> "DeviceSensorConverter", tag |-> "DeviceSensor",
        pkg |-> "smartcitizen"]>>}

\* the arguments NewCombinedConverter is given
ConstructorArgs ==
    {<<>>, <<[id |-> "DeviceInfoConverter", tag |-> "DeviceDetail",
             pkg |-> "smartcitizen"]>>}

\* reflect.TypeOf(data).Name(): the name of a defined type, "" for a pointer
getTypeName(data) == IF data.ptr THEN "" ELSE data.name

\* a mutation of Match: the converter accepts every tag
MatchAny(c, name) == TRUE

\* converter.Match(name)
Match(c, name) == name = c.tag

\* a mutation of ConvertErr: no converter ever returns an error
ConvertErrNever(c, data) == FALSE

\* the type assertion that opens each Convert: data.(DeviceDetail) and the like
ConvertErr(c, data) ==
    ~(data.pkg = c.pkg /\ data.name = c.tag /\ ~data.ptr)

\* a mutation of AddTo: the new converters are put in front
AddToFront(convs, new) == new \o convs

\* CombinedConverter.Add: append(c.converters, converters...)
AddTo(convs, new) == convs \o new

ConvInit ==
    /\ converters = <<>>
    /\ regOrder = converters
    /\ cmu = [readers |-> {}, writer |-> None]
    /\ cpc = "idle"
    /\ cdata = NoData
    /\ cidx = 0
    /\ csnap = <<>>
    /\ cinvoked = <<>>
    /\ cret = "none"
    /\ cwrites = <<>>
    /\ cerr = ""

\* NewCombinedConverter(converters...)
NewCombinedConverter ==
    /\ converters \in ConstructorArgs
    /\ regOrder = converters
    /\ cmu = [readers |-> {}, writer |-> None]
    /\ cpc = "idle"
    /\ cdata = NoData
    /\ cidx = 0
    /\ csnap = <<>>
    /\ cinvoked = <<>>
    /\ cret = "none"
    /\ cwrites = <<>>
    /\ cerr = ""

\* Add(converters...), from any thread: Lock, append, Unlock
Add(new) ==
    /\ Len(converters) + Len(new) <= MaxConverters
    /\ LockFree(cmu)
    /\ converters' = AddTo(converters, new)
    /\ regOrder' = regOrder \o new
    /\ UNCHANGED <<cmu, cpc, cdata, cidx, csnap, cinvoked, cret>>
    /\ UNCHANGED <<cwrites, cerr>>
    /\ UNCHANGED notConverter

\* Convert(registry, data): RLock, the range loop starts
Convert(data) ==
    /\ cpc = "idle"
    /\ RLockFree(cmu)
    /\ cmu' = [cmu EXCEPT !.readers = @ \cup {Poller}]
    /\ cdata' = data
    /\ cidx' = 1
    /\ csnap' = regOrder
    /\ cpc' = "c_match"
    /\ UNCHANGED <<converters, regOrder, cinvoked, cret>>
    /\ UNCHANGED <<cwrites, cerr>>
    /\ UNCHANGED notConverter

\* converter.Match(getTypeName(data)) is false: continue
ConvertNoMatch ==
    /\ cpc = "c_match"
    /\ cidx <= Len(converters)
    /\ ~Match(converters[cidx], getTypeName(cdata))
    /\ cidx' = cidx + 1
    /\ UNCHANGED <<converters, cmu, regOrder, cpc, cdata, csnap, cinvoked, cret>>
    /\ UNCHANGED <<cwrites, cerr>>
    /\ UNCHANGED notConverter

\* converter.Match(getTypeName(data)) is true: converter.Convert is called
ConvertMatch ==
    /\ cpc = "c_match"
    /\ cidx <= Len(converters)
    /\ Match(converters[cidx], getTypeName(cdata))
    /\ cpc' = "c_convert"
    /\ cinvoked' = Append(cinvoked, converters[cidx])
    /\ UNCHANGED <<converters, cmu, regOrder, cdata, cidx, csnap, cret>>
    /\ UNCHANGED <<cwrites, cerr>>
    /\ UNCHANGED notConverter

\* converter.Convert(registry, data) returns nil: next converter
ConvertOk ==
    /\ cpc = "c_convert"
    /\ ~ConvertErr(converters[cidx], cdata)
    /\ cidx' = cidx + 1
    /\ cpc' = "c_match"
    /\ UNCHANGED <<converters, cmu, regOrder, cdata, csnap, cinvoked, cret>>
    /\ cwrites' = Append(cwrites, converters[cidx].id)
    /\ UNCHANGED cerr
    /\ UNCHANGED notConverter

\* converter.Convert(registry, data) returns an error: Convert returns it
ConvertFail ==
    /\ cpc = "c_convert"
    /\ ConvertErr(converters[cidx], cdata)
    /\ cmu' = [cmu EXCEPT !.readers = @ \ {Poller}]
    /\ cret' = "err"
    /\ cpc' = "c_ret"
    /\ UNCHANGED <<converters, regOrder, cdata, cidx, csnap, cinvoked>>
    /\ cerr' = converters[cidx].id
    /\ UNCHANGED cwrites
    /\ UNCHANGED notConverter

\* the range loop is over: Convert returns nil (the deferred RUnlock)
ConvertReturn ==
    /\ cpc = "c_match"
    /\ cidx > Len(converters)
    /\ cmu' = [cmu EXCEPT !.readers = @ \ {Poller}]
    /\ cret' = "nil"
    /\ cpc' = "c_ret"
    /\ UNCHANGED <<converters, regOrder, cdata, cidx, csnap, cinvoked>>
    /\ UNCHANGED <<cwrites, cerr>>
    /\ UNCHANGED notConverter

\* the caller of Convert goes on with the result
ConvertDone ==
    /\ cpc = "c_ret"
    /\ cpc' = "idle"
    /\ cdata' = NoData
    /\ cidx' = 0
    /\ csnap' = <<>>
    /\ cinvoked' = <<>>
    /\ cret' = "none"
    /\ UNCHANGED <<converters, cmu, regOrder>>
    /\ cwrites' = <<>>
    /\ cerr' = ""
    /\ UNCHANGED notConverter

(***************************************************************************)
(* -------------------------- alert.AlertingEngine ----------------------- *)
(* Metric values are fixed-point numbers: Scale units make 1.0, and        *)
(* alert.DefaultFloatTolerance (0.0001) is Scale / 10000 units.            *)
(***************************************************************************)
MaxSensors == 1

Scale == 100000

DefaultFloatTolerance == Scale \div 10000

RuleIds == {"r1", "r2", "r3"}

BatterySensorName == "Battery SCK"

DeviceStateMetricName == "Device State"

NoMetric == [Name |-> "", Value |-> 0]

NoRule == [ID |-> "", MetricName |-> "", Enabled |-> FALSE,
           Condition |-> [kind |-> "none", lo |-> 0, hi |-> 0],
           Action |-> <<>>]

\* rule.go: the condition builders, as the data of the closure each returns
ThresholdAbove(threshold) == [kind |-> "above", lo |-> threshold, hi |-> 0]

ThresholdBelow(threshold) == [kind |-> "below", lo |-> threshold, hi |-> 0]

ThresholdBetween(min, max) == [kind |-> "between", lo |-> min, hi |-> max]

ThresholdEquals(target) == [kind |-> "equals", lo |-> target, hi |-> 0]

\* initAlertEngine: the closures of the battery rules, over the configured
\* battery sensor name
\* a mutation of BatteryAtLeast: the limit itself is left out
BatteryMoreThan(min) == [kind |-> "above", lo |-> min, hi |-> 0]

BatteryAtLeast(min) == [kind |-> "battery_atleast", lo |-> min, hi |-> 0]

\* a mutation of BatteryWithin: the lower bound is dropped
BatteryWithinUpTo(min, max) == [kind |-> "battery_under", lo |-> max, hi |-> 0]

BatteryWithin(min, max) == [kind |-> "battery_within", lo |-> min, hi |-> max]

BatteryUnder(max) == [kind |-> "battery_under", lo |-> max, hi |-> 0]

\* math.Abs
Abs(x) == IF x < 0 THEN 0 - x ELSE x

\* a mutation of FloatEquals: the boundary is excluded
FloatEqualsStrict(a, b, tolerance) == Abs(a - b) < tolerance

\* FloatEquals(a, b, tolerance)
FloatEquals(a, b, tolerance) == Abs(a - b) <= tolerance

\* a mutation of Holds: the bounds of above and below are included
HoldsInclusive(cond, metric) ==
    CASE cond.kind = "above" -> metric.Value >= cond.lo
      [] cond.kind = "below" -> metric.Value <= cond.lo
      [] cond.kind = "between" -> metric.Value >= cond.lo /\ metric.Value <= cond.hi
      [] cond.kind = "equals" ->
            FloatEquals(metric.Value, cond.lo, DefaultFloatTolerance)
      [] cond.kind = "battery_atleast" ->
            metric.Name = BatterySensorName /\ metric.Value >= cond.lo
      [] cond.kind = "battery_within" ->
            /\ metric.Name = BatterySensorName
            /\ metric.Value < cond.hi
            /\ metric.Value >= cond.lo
      [] cond.kind = "battery_under" ->
            metric.Name = BatterySensorName /\ metric.Value < cond.lo
      [] OTHER -> FALSE

\* rule.Condition(metric)
Holds(cond, metric) ==
    CASE cond.kind = "above" -> metric.Value > cond.lo
      [] cond.kind = "below" -> metric.Value < cond.lo
      [] cond.kind = "between" -> metric.Value >= cond.lo /\ metric.Value <= cond.hi
      [] cond.kind = "equals" ->
            FloatEquals(metric.Value, cond.lo, DefaultFloatTolerance)
      [] cond.kind = "battery_atleast" ->
            metric.Name = BatterySensorName /\ metric.Value >= cond.lo
      [] cond.kind = "battery_within" ->
            /\ metric.Name = BatterySensorName
            /\ metric.Value < cond.hi
            /\ metric.Value >= cond.lo
      [] cond.kind = "battery_under" ->
            metric.Name = BatterySensorName /\ metric.Value < cond.lo
      [] OTHER -> FALSE

\* actions are sequences of leaf actions: MultiAction(a1..an) is <<a1..an>>,
\* a single action a sequence of one.  "log" is LogAction, "noop" NoOpAction,
\* "notify" SendNotificationAction (it fails when notifier.Send does),
\* "fail" a caller's action that always returns an error
LeafErr(leaf, sendOk) ==
    CASE leaf = "log" -> FALSE
      [] leaf = "noop" -> FALSE
      [] leaf = "notify" -> ~sendOk
      [] leaf = "fail" -> TRUE
      [] OTHER -> FALSE

NoRun == [action |-> <<>>, sendOk |-> TRUE, invoked |-> <<>>, err |-> FALSE]

\* the range loop of MultiAction from its i-th action on: an action is
\* invoked, and its error, if any, is returned at once
RECURSIVE MultiActionFrom(_, _, _)
MultiActionFrom(actions, i, sendOk) ==
    IF i > Len(actions)
        THEN [action |-> actions, sendOk |-> sendOk, invoked |-> <<>>,
              err |-> FALSE]
    ELSE IF LeafErr(actions[i], sendOk)
        THEN [action |-> actions, sendOk |-> sendOk,
              invoked |-> <<actions[i]>>, err |-> TRUE]
    ELSE LET rest == MultiActionFrom(actions, i + 1, sendOk)
         IN [action |-> actions, sendOk |-> sendOk,
             invoked |-> <<actions[i]>> \o rest.invoked, err |-> rest.err]

\* a mutation of MultiAction: every action is invoked, errors are collected
MultiActionAll(actions, sendOk) ==
    [action |-> actions, sendOk |-> sendOk, invoked |-> actions,
     err |-> \E i \in 1..Len(actions) : LeafErr(actions[i], sendOk)]

\* MultiAction(actions...)(metric, rule): what is invoked and what is returned
MultiAction(actions, sendOk) == MultiActionFrom(actions, 1, sendOk)

\* rule.Action(metric, rule): the error of the first leaf that fails, if any
ActionErr(action, sendOk) == MultiAction(action, sendOk).err

\* the rules AddRule is given
RuleChoices ==
    {[ID |-> "r1", MetricName |-> BatterySensorName, Enabled |-> TRUE,
      Condition |-> ThresholdAbove(10 * Scale), Action |-> <<"log">>],
     [ID |-> "r1", MetricName |-> BatterySensorName, Enabled |-> FALSE,
      Condition |-> ThresholdAbove(10 * Scale), Action |-> <<"log">>],
     [ID |-> "r2", MetricName |-> BatterySensorName, Enabled |-> TRUE,
      Condition |-> ThresholdAbove(10 * Scale), Action |-> <<"fail">>],
     [ID |-> "r3", MetricName |-> BatterySensorName, Enabled |-> TRUE,
      Condition |-> ThresholdBetween(10 * Scale, 15 * Scale),
      Action |-> <<"log", "notify", "noop">>],
     [ID |-> "r3", MetricName |-> DeviceStateMetricName, Enabled |-> TRUE,
      Condition |-> ThresholdBelow(Scale), Action |-> <<"notify">>]}

\* sensor readings and device states of the devices evaluateDevice is given
SensorChoices ==
    {[Name |-> BatterySensorName, Value |-> 12 * Scale],
     [Name |-> BatterySensorName, Value |-> 16 * Scale]}

StateChoices == {"online", "offline"}

\* a mutation of StateValue: "has_published" is not taken for online
StateValueOnlineOnly(state) ==
    CASE state = "online" -> Scale
      [] state = "offline" -> 0
      [] state = "sleeping" -> Scale \div 2
      [] OTHER -> -Scale

\* DeviceDetail.StateValue
StateValue(state) ==
    CASE state \in {"online", "has_published"} -> Scale
      [] state = "offline" -> 0
      [] state = "sleeping" -> Scale \div 2
      [] OTHER -> -Scale

\* a mutation of DeviceMetrics: the device-state metric comes first
DeviceMetricsStateFirst(sensors, state) ==
    <<[Name |-> DeviceStateMetricName, Value |-> StateValue(state)]>> \o sensors

\* mapDeviceSensorsToMetrics, then the device-state metric appended
DeviceMetrics(sensors, state) ==
    sensors \o <<[Name |-> DeviceStateMetricName, Value |-> StateValue(state)]>>

SensorLists ==
    UNION {[1..n -> SensorChoices] : n \in 0..MaxSensors}

\* a mutation of AfterAction: an action error ends the range loop
AfterActionBreak(todo, err) == IF err THEN {} ELSE todo

\* Evaluate after rule.Action returned: the error is logged, the loop goes on
AfterAction(todo, err) == todo

\* a mutation of RulesAfterAction: a rule whose action failed is disabled
RulesAfterActionDisable(rs, id, err) ==
    IF err THEN [rs EXCEPT ![id].Enabled = FALSE] ELSE rs

\* Evaluate after rule.Action returned: the rule set is not written, the
\* error is only logged
RulesAfterAction(rs, id, err) == rs

\* no AddRule / RemoveRule call yet
NoOp == [op |-> "none", id |-> "", old |-> NoRule]

\* a mutation of Triggered: the action runs only when it did not run before
TriggeredOnEdge(held, firedBefore) == held /\ ~firedBefore

\* Evaluate: the engine keeps no memory of earlier calls; what decides is
\* what rule.Condition(metric) returned
Triggered(held, firedBefore) == held

\* a mutation of PutRule: a rule is stored only under an id not yet in use
PutRuleIfAbsent(rs, rule) ==
    IF rs[rule.ID] # NoRule THEN rs ELSE [rs EXCEPT ![rule.ID] = rule]

\* AddRule: e.rules[rule.ID] = rule
PutRule(rs, rule) == [rs EXCEPT ![rule.ID] = rule]

\* a mutation of DeleteRule: the whole map is emptied
DeleteAllRules(rs, id) == [j \in RuleIds |-> NoRule]

\* RemoveRule: delete(e.rules, ruleID)
DeleteRule(rs, id) == [rs EXCEPT ![id] = NoRule]

\* a mutation of ActionCalls: the action is run on every applied condition
ActionCallsAlways(held) == 1

\* Evaluate: the action is called when the condition returned true
ActionCalls(held) == IF held THEN 1 ELSE 0

ZeroCounts == [id \in RuleIds |-> 0]

AlertInit ==
    /\ rules = [id \in RuleIds |-> NoRule]
    /\ emu = [readers |-> {}, writer |-> None]
    /\ epc = "idle"
    /\ ecycle = <<>>
    /\ eidx = 1
    /\ emetric = NoMetric
    /\ etodo = {}
    /\ ecur = ""
    /\ esnap = [id \in RuleIds |-> NoRule]
    /\ econd = ZeroCounts
    /\ efired = ZeroCounts
    /\ eerrs = {}
    /\ edone = <<>>
    /\ eprev = [id \in RuleIds |-> FALSE]
    /\ elast = NoOp
    /\ erun = NoRun

InCycle == eidx <= Len(ecycle)

\* AddRule(rule), from any thread: Lock, e.rules[rule.ID] = rule, Unlock
AddRule(rule) ==
    /\ LockFree(emu)
    /\ rules' = PutRule(rules, rule)
    /\ elast' = [op |-> "add", id |-> rule.ID, old |-> rules[rule.ID]]
    /\ UNCHANGED <<emu, epc, ecycle, eidx, emetric, etodo, ecur, esnap, econd,
                   efired, eerrs, edone>>
    /\ eprev' = [eprev EXCEPT ![rule.ID] = FALSE]
    /\ UNCHANGED erun
    /\ UNCHANGED notAlert

\* RemoveRule(ruleID), from any thread: Lock, delete(e.rules, ruleID), Unlock
RemoveRule(id) ==
    /\ LockFree(emu)
    /\ rules' = DeleteRule(rules, id)
    /\ elast' = [op |-> "remove", id |-> id, old |-> rules[id]]
    /\ UNCHANGED <<emu, epc, ecycle, eidx, emetric, etodo, ecur, esnap, econd,
                   efired, eerrs, edone>>
    /\ eprev' = [eprev EXCEPT ![id] = FALSE]
    /\ UNCHANGED erun
    /\ UNCHANGED notAlert

\* evaluateDevice(engine, deviceDetail): the metrics to evaluate
evaluateDevice(sensors, state) ==
    /\ epc = "idle"
    /\ ~InCycle
    /\ ecycle' = DeviceMetrics(sensors, state)
    /\ UNCHANGED <<rules, emu, epc, eidx, emetric, etodo, ecur, esnap, econd,
                   efired, eerrs, edone>>
    /\ UNCHANGED <<eprev, erun>>
    /\ elast' = NoOp
    /\ UNCHANGED notAlert

\* Evaluate(metric): RLock, the range loop over e.rules starts
Evaluate ==
    /\ epc = "idle"
    /\ InCycle
    /\ RLockFree(emu)
    /\ emu' = [emu EXCEPT !.readers = @ \cup {Poller}]
    /\ emetric' = ecycle[eidx]
    /\ etodo' = {id \in RuleIds : rules[id] # NoRule}
    /\ esnap' = rules
    /\ epc' = "e_loop"
    /\ UNCHANGED <<rules, ecycle, eidx, ecur, econd, efired, eerrs, edone>>
    /\ UNCHANGED <<eprev, erun>>
    /\ elast' = NoOp
    /\ UNCHANGED notAlert

\* the next rule is for another metric: continue
EvalSkipOtherMetric ==
    /\ epc = "e_loop"
    /\ \E id \in etodo :
          /\ rules[id].MetricName # emetric.Name
          /\ etodo' = etodo \ {id}
    /\ UNCHANGED <<rules, emu, epc, ecycle, eidx, emetric, ecur, esnap, econd,
                   efired, eerrs, edone>>
    /\ UNCHANGED <<eprev, elast, erun>>
    /\ UNCHANGED notAlert

\* the next rule is disabled: continue
EvalSkipDisabled ==
    /\ epc = "e_loop"
    /\ \E id \in etodo :
          /\ rules[id].MetricName = emetric.Name
          /\ ~rules[id].Enabled
          /\ etodo' = etodo \ {id}
    /\ UNCHANGED <<rules, emu, epc, ecycle, eidx, emetric, ecur, esnap, econd,
                   efired, eerrs, edone>>
    /\ UNCHANGED <<eprev, elast, erun>>
    /\ UNCHANGED notAlert

\* the next rule targets the metric and is enabled: rule.Condition is called
EvalCallCondition ==
    /\ epc = "e_loop"
    /\ \E id \in etodo :
          /\ rules[id].MetricName = emetric.Name
          /\ rules[id].Enabled
          /\ etodo' = etodo \ {id}
          /\ ecur' = id
          /\ econd' = [econd EXCEPT ![id] = @ + 1]
    /\ epc' = "e_cond"
    /\ UNCHANGED <<rules, emu, ecycle, eidx, emetric, esnap, efired, eerrs,
                   edone>>
    /\ UNCHANGED <<eprev, elast, erun>>
    /\ UNCHANGED notAlert

\* rule.Condition(metric) returns: true calls rule.Action, false continues
EvalCondition ==
    /\ epc = "e_cond"
    /\ LET n == ActionCalls(Triggered(Holds(rules[ecur].Condition, emetric),
                                       eprev[ecur]))
       IN /\ efired' = [efired EXCEPT ![ecur] = @ + n]
          /\ epc' = IF n > 0 THEN "e_action" ELSE "e_loop"
    /\ UNCHANGED <<rules, emu, ecycle, eidx, emetric, etodo, ecur, esnap,
                   econd, eerrs, edone>>
    /\ UNCHANGED <<eprev, elast, erun>>
    /\ UNCHANGED notAlert

\* rule.Action(metric, rule) returns, with an error or without
EvalAction ==
    /\ epc = "e_action"
    /\ \E sendOk \in BOOLEAN :
          LET err == ActionErr(rules[ecur].Action, sendOk)
          IN /\ eerrs' = IF err THEN eerrs \cup {ecur} ELSE eerrs
             /\ etodo' = AfterAction(etodo, err)
             /\ erun' = MultiAction(rules[ecur].Action, sendOk)
             /\ rules' = RulesAfterAction(rules, ecur, err)
    /\ epc' = "e_loop"
    /\ UNCHANGED <<emu, ecycle, eidx, emetric, ecur, esnap, econd,
                   efired, edone>>
    /\ UNCHANGED <<eprev, elast>>
    /\ UNCHANGED notAlert

\* the range loop is over: Evaluate returns (the deferred RUnlock)
EvalReturn ==
    /\ epc = "e_loop"
    /\ etodo = {}
    /\ emu' = [emu EXCEPT !.readers = @ \ {Poller}]
    /\ epc' = "e_ret"
    /\ edone' = Append(edone, emetric)
    /\ UNCHANGED <<rules, ecycle, eidx, emetric, etodo, ecur, esnap, econd,
                   efired, eerrs>>
    /\ UNCHANGED <<eprev, elast, erun>>
    /\ UNCHANGED notAlert

\* evaluateDevice: the loop over the metrics moves on
EvalNextMetric ==
    /\ epc = "e_ret"
    /\ eidx' = eidx + 1
    /\ epc' = IF eidx < Len(ecycle) THEN "idle" ELSE "d_ret"
    /\ emetric' = NoMetric
    /\ ecur' = ""
    /\ esnap' = [id \in RuleIds |-> NoRule]
    /\ econd' = ZeroCounts
    /\ efired' = ZeroCounts
    /\ eerrs' = {}
    /\ eprev' = [id \in RuleIds |->
                    IF econd[id] > 0 THEN efired[id] > 0 ELSE eprev[id]]
    /\ elast' = NoOp
    /\ erun' = NoRun
    /\ UNCHANGED <<rules, emu, ecycle, etodo, edone>>
    /\ UNCHANGED notAlert

\* evaluateDevice returns
DeviceReturn ==
    /\ epc = "d_ret"
    /\ epc' = "idle"
    /\ ecycle' = <<>>
    /\ eidx' = 1
    /\ edone' = <<>>
    /\ UNCHANGED <<rules, emu, emetric, etodo, ecur, esnap, econd, efired,
                   eerrs>>
    /\ UNCHANGED <<eprev, erun>>
    /\ elast' = NoOp
    /\ UNCHANGED notAlert

(***************************************************************************)
(* -------------------------- smartcitizen.APIExporter ------------------- *)
(* Start runs on its own goroutine; cancel() and the ticker act from       *)
(* outside.  The provider and the converter are interfaces: each call      *)
(* returns a result or an error.                                           *)
(***************************************************************************)
MaxCycles == 2

\* user.Devices, in the order GetMe returned them
UserDevices == <<"d1", "d2">>

\* device.Data.Sensors of every device
DeviceSensors == <<"s1", "s2">>

\* what the conversion pass writes: one device record and its sensors
Detail == "detail"

Items == {<<d, k>> : d \in {UserDevices[i] : i \in 1..Len(UserDevices)},
                     k \in {Detail} \cup
                           {DeviceSensors[j] : j \in 1..Len(DeviceSensors)}}

ZeroCounters ==
    [requests |-> 0, success |-> 0, fetch_error |-> 0, mapping_error |-> 0]

\* a mutation of IncFetchError: the success counter is incremented as well
IncFetchErrorAndSuccess(c) ==
    [c EXCEPT !.fetch_error = @ + 1, !.success = @ + 1]

\* errCounter.WithLabelValues("fetch_error").Inc()
IncFetchError(c) == [c EXCEPT !.fetch_error = @ + 1]

\* a mutation of IncSuccess: a successful fetch is not counted
IncSuccessNot(c) == c

\* successCounter.Inc()
IncSuccess(c) == [c EXCEPT !.success = @ + 1]

\* a mutation of IncMappingError: a failure is counted twice
IncMappingErrorTwice(c) == [c EXCEPT !.mapping_error = @ + 2]

\* e.dataErrorCounter.WithLabelValues("mapping_error").Inc()
IncMappingError(c) == [c EXCEPT !.mapping_error = @ + 1]

\* convertDeviceSensorsToMetrics returns the error of a sensor: the range
\* loop over the sensors is left
AfterSensorError(si) == Len(DeviceSensors) + 1

\* a mutation of AfterFetchError: the failed call is made again
AfterFetchErrorRetry(at) == at

\* fetchAPIData: return nil, err: updateMetrics goes on with the error
AfterFetchError(at) == "u_fail"

ExporterInit ==
    /\ xpc = "start"
    /\ xctx = FALSE
    /\ xtick = FALSE
    /\ xcycle = 0
    /\ xfetched = <<>>
    /\ xdi = 0
    /\ xsi = 0
    /\ xvalues = [it \in Items |-> "none"]
    /\ xcounters = ZeroCounters
    /\ xbefore = ZeroCounters
    /\ xfailed = {}
    /\ xfetchFailed = FALSE
    /\ xlog = <<>>
    /\ xprevFailed = FALSE

\* updateMetrics is entered: reqCounter.Inc(), then fetchAPIData
UpdateBegin ==
    /\ xcycle < MaxCycles
    /\ xcycle' = xcycle + 1
    /\ xbefore' = xcounters
    /\ xcounters' = [xcounters EXCEPT !.requests = @ + 1]
    /\ xpc' = "u_me"
    /\ xlog' = <<>>
    /\ UNCHANGED <<xfetched, xdi, xsi, xvalues, xfailed, xfetchFailed,
                   xprevFailed>>

\* Start(ctx, interval): the ticker is made, updateMetrics runs immediately
Start ==
    /\ xpc = "start"
    /\ UpdateBegin
    /\ UNCHANGED <<xctx, xtick>>
    /\ UNCHANGED notExporter

\* cancel(), from the main goroutine
Cancel ==
    /\ ~xctx
    /\ xctx' = TRUE
    /\ UNCHANGED <<xpc, xtick, xcycle, xfetched, xdi, xsi, xvalues, xcounters,
                   xbefore, xfailed, xfetchFailed>>
    /\ UNCHANGED <<xlog, xprevFailed>>
    /\ UNCHANGED notExporter

\* the ticker puts a tick in its channel (of capacity one)
Tick ==
    /\ xpc \notin {"start", "stopped"}
    /\ ~xtick
    /\ xtick' = TRUE
    /\ UNCHANGED <<xpc, xctx, xcycle, xfetched, xdi, xsi, xvalues, xcounters,
                   xbefore, xfailed, xfetchFailed>>
    /\ UNCHANGED <<xlog, xprevFailed>>
    /\ UNCHANGED notExporter

\* select: case <-ctx.Done(): return
SelectDone ==
    /\ xpc = "select"
    /\ xctx
    /\ xpc' = "stopped"
    /\ UNCHANGED <<xctx, xtick, xcycle, xfetched, xdi, xsi, xvalues, xcounters,
                   xbefore, xfailed, xfetchFailed>>
    /\ UNCHANGED <<xlog, xprevFailed>>
    /\ UNCHANGED notExporter

\* select: case <-ticker.C: updateMetrics(ctx)
SelectTick ==
    /\ xpc = "select"
    /\ xtick
    /\ xtick' = FALSE
    /\ UpdateBegin
    /\ UNCHANGED xctx
    /\ UNCHANGED notExporter

\* fetchAPIData: provider.GetMe returns the user
GetMeOk ==
    /\ xpc = "u_me"
    /\ xpc' = "u_dev"
    /\ xfetched' = <<>>
    /\ xdi' = 1
    /\ UNCHANGED <<xctx, xtick, xcycle, xsi, xvalues, xcounters, xbefore,
                   xfailed, xfetchFailed>>
    /\ xlog' = Append(xlog, [call |-> "me", ok |-> TRUE])
    /\ UNCHANGED xprevFailed
    /\ UNCHANGED notExporter

\* fetchAPIData: provider.GetMe fails
GetMeErr ==
    /\ xpc = "u_me"
    /\ xpc' = AfterFetchError(xpc)
    /\ xfetched' = <<>>
    /\ UNCHANGED <<xctx, xtick, xcycle, xdi, xsi, xvalues, xcounters, xbefore,
                   xfailed, xfetchFailed>>
    /\ xlog' = Append(xlog, [call |-> "me", ok |-> FALSE])
    /\ UNCHANGED xprevFailed
    /\ UNCHANGED notExporter

\* fetchAPIData: provider.GetDevice returns a device, which is appended
GetDeviceOk ==
    /\ xpc = "u_dev"
    /\ xdi <= Len(UserDevices)
    /\ xfetched' = Append(xfetched, UserDevices[xdi])
    /\ xdi' = xdi + 1
    /\ UNCHANGED <<xpc, xctx, xtick, xcycle, xsi, xvalues, xcounters, xbefore,
                   xfailed, xfetchFailed>>
    /\ xlog' = Append(xlog, [call |-> UserDevices[xdi], ok |-> TRUE])
    /\ UNCHANGED xprevFailed
    /\ UNCHANGED notExporter

\* fetchAPIData: provider.GetDevice returns nil without error: continue
GetDeviceNil ==
    /\ xpc = "u_dev"
    /\ xdi <= Len(UserDevices)
    /\ xdi' = xdi + 1
    /\ UNCHANGED <<xpc, xctx, xtick, xcycle, xfetched, xsi, xvalues, xcounters,
                   xbefore, xfailed, xfetchFailed>>
    /\ xlog' = Append(xlog, [call |-> UserDevices[xdi], ok |-> TRUE])
    /\ UNCHANGED xprevFailed
    /\ UNCHANGED notExporter

\* fetchAPIData: provider.GetDevice fails: return nil, err
GetDeviceErr ==
    /\ xpc = "u_dev"
    /\ xdi <= Len(UserDevices)
    /\ xpc' = AfterFetchError(xpc)
    /\ UNCHANGED <<xctx, xtick, xcycle, xfetched, xdi, xsi, xvalues, xcounters,
                   xbefore, xfailed, xfetchFailed>>
    /\ xlog' = Append(xlog, [call |-> UserDevices[xdi], ok |-> FALSE])
    /\ UNCHANGED xprevFailed
    /\ UNCHANGED notExporter

\* fetchAPIData: the device loop is over: return &result, nil
FetchDone ==
    /\ xpc = "u_dev"
    /\ xdi > Len(UserDevices)
    /\ xpc' = "u_ok"
    /\ UNCHANGED <<xctx, xtick, xcycle, xfetched, xdi, xsi, xvalues, xcounters,
                   xbefore, xfailed, xfetchFailed>>
    /\ UNCHANGED <<xlog, xprevFailed>>
    /\ UNCHANGED notExporter

\* updateMetrics, err != nil: count the fetch error and return
CountFetchError ==
    /\ xpc = "u_fail"
    /\ xcounters' = IncFetchError(xcounters)
    /\ xfetchFailed' = TRUE
    /\ xpc' = "u_ret"
    /\ UNCHANGED <<xctx, xtick, xcycle, xfetched, xdi, xsi, xvalues, xbefore,
                   xfailed>>
    /\ UNCHANGED <<xlog, xprevFailed>>
    /\ UNCHANGED notExporter

\* updateMetrics: count the success, then processAPIData(data)
CountSuccess ==
    /\ xpc = "u_ok"
    /\ xcounters' = IncSuccess(xcounters)
    /\ xdi' = 1
    /\ xpc' = "p_dev"
    /\ UNCHANGED <<xctx, xtick, xcycle, xfetched, xsi, xvalues, xbefore,
                   xfailed, xfetchFailed>>
    /\ UNCHANGED <<xlog, xprevFailed>>
    /\ UNCHANGED notExporter

\* processAPIData: convertDeviceDetailToMetrics(device) returns nil
ConvertDetailOk ==
    /\ xpc = "p_dev"
    /\ xdi <= Len(xfetched)
    /\ xvalues' = [xvalues EXCEPT ![<<xfetched[xdi], Detail>>] = "new"]
    /\ xsi' = 1
    /\ xpc' = "p_sensor"
    /\ UNCHANGED <<xctx, xtick, xcycle, xfetched, xdi, xcounters, xbefore,
                   xfailed, xfetchFailed>>
    /\ UNCHANGED <<xlog, xprevFailed>>
    /\ UNCHANGED notExporter

\* processAPIData: convertDeviceDetailToMetrics(device) fails: continue
ConvertDetailErr ==
    /\ xpc = "p_dev"
    /\ xdi <= Len(xfetched)
    /\ xcounters' = IncMappingError(xcounters)
    /\ xfailed' = xfailed \cup {<<xfetched[xdi], Detail>>}
    /\ xdi' = xdi + 1
    /\ UNCHANGED <<xpc, xctx, xtick, xcycle, xfetched, xsi, xvalues, xbefore,
                   xfetchFailed>>
    /\ UNCHANGED <<xlog, xprevFailed>>
    /\ UNCHANGED notExporter

\* convertDeviceSensorsToMetrics: e.converter.Convert(sensor) returns nil
ConvertSensorOk ==
    /\ xpc = "p_sensor"
    /\ xsi <= Len(DeviceSensors)
    /\ xvalues' = [xvalues EXCEPT ![<<xfetched[xdi], DeviceSensors[xsi]>>] = "new"]
    /\ xsi' = xsi + 1
    /\ UNCHANGED <<xpc, xctx, xtick, xcycle, xfetched, xdi, xcounters, xbefore,
                   xfailed, xfetchFailed>>
    /\ UNCHANGED <<xlog, xprevFailed>>
    /\ UNCHANGED notExporter

\* convertDeviceSensorsToMetrics: e.converter.Convert(sensor) fails: the
\* error is counted and returned
ConvertSensorErr ==
    /\ xpc = "p_sensor"
    /\ xsi <= Len(DeviceSensors)
    /\ xcounters' = IncMappingError(xcounters)
    /\ xfailed' = xfailed \cup {<<xfetched[xdi], DeviceSensors[xsi]>>}
    /\ xsi' = AfterSensorError(xsi)
    /\ UNCHANGED <<xpc, xctx, xtick, xcycle, xfetched, xdi, xvalues, xbefore,
                   xfetchFailed>>
    /\ UNCHANGED <<xlog, xprevFailed>>
    /\ UNCHANGED notExporter

\* convertDeviceSensorsToMetrics has returned: processAPIData takes the next
\* device
SensorsDone ==
    /\ xpc = "p_sensor"
    /\ xsi > Len(DeviceSensors)
    /\ xdi' = xdi + 1
    /\ xpc' = "p_dev"
    /\ UNCHANGED <<xctx, xtick, xcycle, xfetched, xsi, xvalues, xcounters,
                   xbefore, xfailed, xfetchFailed>>
    /\ UNCHANGED <<xlog, xprevFailed>>
    /\ UNCHANGED notExporter

\* processAPIData: the device loop is over: updateMetrics returns
ProcessDone ==
    /\ xpc = "p_dev"
    /\ xdi > Len(xfetched)
    /\ xpc' = "u_ret"
    /\ UNCHANGED <<xctx, xtick, xcycle, xfetched, xdi, xsi, xvalues, xcounters,
                   xbefore, xfailed, xfetchFailed>>
    /\ UNCHANGED <<xlog, xprevFailed>>
    /\ UNCHANGED notExporter

\* updateMetrics has returned: Start is at its select; what this cycle wrote
\* is from now on a value of an earlier cycle
CycleDone ==
    /\ xpc = "u_ret"
    /\ xpc' = "select"
    /\ xvalues' = [it \in Items |-> IF xvalues[it] = "new" THEN "old"
                                    ELSE xvalues[it]]
    /\ xfetched' = <<>>
    /\ xdi' = 0
    /\ xsi' = 0
    /\ xbefore' = xcounters
    /\ xfailed' = {}
    /\ xfetchFailed' = FALSE
    /\ UNCHANGED <<xctx, xtick, xcycle, xcounters>>
    /\ xlog' = <<>>
    /\ xprevFailed' = xfetchFailed
    /\ UNCHANGED notExporter

(***************************************************************************)
(* ------------------ smartcitizen.DeviceSensorConverter ----------------- *)
(* Convert runs on the poll loop, one call at a time;                      *)
(* SensorMetricMapping.Add may be called from any thread.                  *)
(***************************************************************************)
\* NewDeviceSensorConverter("sensor", sensorMapping)
SensorPrefix == "sensor"

SensorNames == {"Temp", "Battery SCK", "Noise"}

\* no entry under a name of SensorMetricMapping.items
NoItem == [Metric |-> "", Category |-> "", present |-> FALSE]

\* the zero MetricMappingItem a failed map lookup yields
ZeroItem == [Metric |-> "", Category |-> ""]

\* the arguments SensorMetricMapping.Add is given; "Noise" is never added
MappingChoices ==
    {[name |-> "Temp", item |-> [Metric |-> "temperature", Category |-> "air"]],
     [name |-> "Battery SCK", item |-> [Metric |-> "", Category |-> "power"]],
     [name |-> "Battery SCK",
      item |-> [Metric |-> "battery", Category |-> "power"]]}

\* the sensors of the device: the DeviceSensor fields that become labels
SensorIdentities ==
    {[ID |-> 1, UUID |-> "u1", Name |-> "Temp", DeviceUUID |-> "d1"],
     [ID |-> 2, UUID |-> "u2", Name |-> "Battery SCK", DeviceUUID |-> "d1"],
     [ID |-> 13, UUID |-> "u3", Name |-> "Noise", DeviceUUID |-> "d1"]}

DecimalDigits == <<"0", "1", "2", "3", "4", "5", "6", "7", "8", "9">>

\* strconv.Itoa
RECURSIVE Itoa(_)
Itoa(n) ==
    IF n < 0 THEN "-" \o Itoa(0 - n)
    ELSE IF n < Len(DecimalDigits) THEN DecimalDigits[n + 1]
    ELSE Itoa(n \div Len(DecimalDigits))
             \o DecimalDigits[(n % Len(DecimalDigits)) + 1]

\* Convert: prometheus.Labels{"id", "uuid", "name", "device"}
SensorLabels(sensor) ==
    [id |-> Itoa(sensor.ID), uuid |-> sensor.UUID, name |-> sensor.Name,
     device |-> sensor.DeviceUUID]

SensorLabelSets == {SensorLabels(sensor) : sensor \in SensorIdentities}

\* the readings handed to Convert: DeviceSensor values, and a value of
\* another type
SensorReadings ==
    [sensor : SensorIdentities, Value : {1, 2}, typed : {TRUE}] \cup
    [sensor : SensorIdentities, Value : {1}, typed : {FALSE}]

\* what a gauge holds under a label set it has no child for: no value
Absent == <<>>

\* a label set that no conversion has written yet
NoConversion == [metric |-> "", value |-> 0]

NoSensorCall == [reading |-> [sensor |-> [ID |-> 0, UUID |-> "", Name |-> "",
                                          DeviceUUID |-> ""],
                              Value |-> 0, typed |-> TRUE],
                 labels |-> [id |-> "", uuid |-> "", name |-> "",
                             device |-> ""],
                 found |-> FALSE, added |-> FALSE, item |-> ZeroItem,
                 metric |-> "", before |-> Absent, ret |-> "none"]

\* MetricMappingItem.MetricName: Sprintf("%s_%s", m.Category, m.Metric)
MetricName(item) == item.Category \o "_" \o item.Metric

\* SensorMetricMapping.Get: item, exists := m.items[sensorName]
MappingGet(items, name) ==
    IF items[name] = NoItem
        THEN [item |-> ZeroItem, exists |-> FALSE]
        ELSE [item |-> [Metric |-> items[name].Metric,
                        Category |-> items[name].Category],
              exists |-> TRUE]

\* a mutation of SensorMetricName: the mapped name is used whenever an entry
\* exists, also when its Metric field is empty
SensorMetricNameIfExists(prefix, got) ==
    IF got.exists THEN prefix \o "_" \o MetricName(got.item)
    ELSE prefix \o "_state"

\* Convert: the generic name c.metricName + "_state", or the mapped name when
\* the mapping exists and has a non-empty Metric field
SensorMetricName(prefix, got) ==
    IF got.exists /\ got.item.Metric # ""
        THEN prefix \o "_" \o MetricName(got.item)
    ELSE prefix \o "_state"

\* a mutation of GaugeSet: the value is added to what the gauge holds
GaugeAdd(old, v) == IF old = Absent THEN v ELSE old[1] + v

\* gauge.With(labels).Set(sensor.Value)
GaugeSet(old, v) == v

\* what the gauge <<metric, labels>> holds: <<value>>, or no value
GaugeValue(g, key) == IF key \in DOMAIN g THEN <<g[key]>> ELSE Absent

SensorInit ==
    /\ sitems = [n \in SensorNames |-> NoItem]
    /\ sadded = {}
    /\ sgauges = <<>>
    /\ spc = "idle"
    /\ scur = NoSensorCall
    /\ slatest = [l \in SensorLabelSets |-> NoConversion]
    /\ slast = NoSensorCall

\* SensorMetricMapping.Add(sensorName, item): Lock, m.items[sensorName] = item
MappingAdd(name, item) ==
    /\ sitems' = [sitems EXCEPT ![name] =
                      [Metric |-> item.Metric, Category |-> item.Category,
                       present |-> TRUE]]
    /\ sadded' = sadded \cup {name}
    /\ UNCHANGED <<sgauges, spc, scur, slatest, slast>>
    /\ UNCHANGED notSensor

\* Convert(registry, data): data.(DeviceSensor) fails: ErrInvalidDataType
SensorConvertInvalid(reading) ==
    /\ spc = "idle"
    /\ ~reading.typed
    /\ slast' = [NoSensorCall EXCEPT !.reading = reading, !.ret = "err"]
    /\ spc' = "s_ret"
    /\ UNCHANGED <<sitems, sadded, sgauges, scur, slatest>>
    /\ UNCHANGED notSensor

\* Convert(registry, data): the type assertion holds, sensorMapping.Get, and
\* the metric name is chosen
SensorConvert(reading) ==
    /\ spc = "idle"
    /\ reading.typed
    /\ LET got == MappingGet(sitems, reading.sensor.Name)
       IN scur' = [NoSensorCall EXCEPT
                       !.reading = reading,
                       !.found = got.exists,
                       !.added = reading.sensor.Name \in sadded,
                       !.item = got.item,
                       !.metric = SensorMetricName(SensorPrefix, got)]
    /\ spc' = "s_set"
    /\ UNCHANGED <<sitems, sadded, sgauges, slatest, slast>>
    /\ UNCHANGED notSensor

\* Convert: registry.GetOrCreateGaugeVec(metricName, ...), then
\* gauge.With(labels).Set(sensor.Value) and return nil
SensorSet ==
    /\ spc = "s_set"
    /\ LET labels == SensorLabels(scur.reading.sensor)
           key == <<scur.metric, labels>>
           old == GaugeValue(sgauges, key)
           new == GaugeSet(old, scur.reading.Value)
       IN /\ sgauges' = [k \in DOMAIN sgauges \cup {key} |->
                            IF k = key THEN new ELSE sgauges[k]]
          /\ slast' = [scur EXCEPT !.labels = labels, !.before = old,
                                   !.ret = "nil"]
          /\ slatest' = [slatest EXCEPT ![labels] =
                            [metric |-> scur.metric,
                             value |-> scur.reading.Value]]
    /\ scur' = NoSensorCall
    /\ spc' = "s_ret"
    /\ UNCHANGED <<sitems, sadded>>
    /\ UNCHANGED notSensor

\* the caller of Convert goes on
SensorDone ==
    /\ spc = "s_ret"
    /\ spc' = "idle"
    /\ slast' = NoSensorCall
    /\ UNCHANGED <<sitems, sadded, sgauges, scur, slatest>>
    /\ UNCHANGED notSensor

(***************************************************************************)
(* ---------------------- metric.SensorMetricMapping --------------------- *)
(* Add and Get called from several threads, one lock operation at a time.  *)
(***************************************************************************)
NoMapCall == [op |-> "none", name |-> "", item |-> ZeroItem,
              got |-> [item |-> ZeroItem, exists |-> FALSE]]

\* a mutation of GetMayRLock: RLock is granted while a writer holds the lock
GetMayRLockAlways(m) == TRUE

\* m.mu.RLock() returns once no writer holds the lock
GetMayRLock(m) == m.writer = None

\* m.mu.Lock() returns once nobody holds the lock
AddMayLock(m) == m.writer = None /\ m.readers = {}

\* the threads inside a Get(name) call
Getting(name) ==
    {q \in Threads : mcall[q].op = "Get" /\ mcall[q].name = name}

MappingInit ==
    /\ mitems = [n \in SensorNames |-> NoItem]
    /\ mmu = [readers |-> {}, writer |-> None]
    /\ mpc = [p \in Threads |-> "idle"]
    /\ mcall = [p \in Threads |-> NoMapCall]
    /\ mseen = [p \in Threads |-> {}]

\* a thread enters Add(sensorName, item)
MapAdd(p, name, item) ==
    /\ mpc[p] = "idle"
    /\ mcall' = [mcall EXCEPT ![p] = [NoMapCall EXCEPT !.op = "Add",
                                         !.name = name, !.item = item]]
    /\ mpc' = [mpc EXCEPT ![p] = "add_lock"]
    /\ UNCHANGED <<mitems, mmu, mseen>>
    /\ UNCHANGED notMapping

\* Add: m.mu.Lock()
MapAddLock(p) ==
    /\ mpc[p] = "add_lock"
    /\ AddMayLock(mmu)
    /\ mmu' = [mmu EXCEPT !.writer = p]
    /\ mpc' = [mpc EXCEPT ![p] = "add_write"]
    /\ UNCHANGED <<mitems, mcall, mseen>>
    /\ UNCHANGED notMapping

\* Add: m.items[sensorName] = item
MapAddWrite(p) ==
    /\ mpc[p] = "add_write"
    /\ LET entry == [Metric |-> mcall[p].item.Metric,
                     Category |-> mcall[p].item.Category, present |-> TRUE]
       IN /\ mitems' = [mitems EXCEPT ![mcall[p].name] = entry]
          /\ mseen' = [q \in Threads |->
                          IF q \in Getting(mcall[p].name)
                              THEN mseen[q] \cup {entry} ELSE mseen[q]]
    /\ mpc' = [mpc EXCEPT ![p] = "add_unlock"]
    /\ UNCHANGED <<mmu, mcall>>
    /\ UNCHANGED notMapping

\* Add: the deferred m.mu.Unlock(), and Add returns
MapAddUnlock(p) ==
    /\ mpc[p] = "add_unlock"
    /\ mmu' = [mmu EXCEPT !.writer = None]
    /\ mpc' = [mpc EXCEPT ![p] = "idle"]
    /\ mcall' = [mcall EXCEPT ![p] = NoMapCall]
    /\ UNCHANGED <<mitems, mseen>>
    /\ UNCHANGED notMapping

\* a thread enters Get(sensorName)
MapGet(p, name) ==
    /\ mpc[p] = "idle"
    /\ mcall' = [mcall EXCEPT ![p] = [NoMapCall EXCEPT !.op = "Get",
                                         !.name = name]]
    /\ mseen' = [mseen EXCEPT ![p] = {mitems[name]}]
    /\ mpc' = [mpc EXCEPT ![p] = "get_rlock"]
    /\ UNCHANGED <<mitems, mmu>>
    /\ UNCHANGED notMapping

\* Get: m.mu.RLock()
MapGetRLock(p) ==
    /\ mpc[p] = "get_rlock"
    /\ GetMayRLock(mmu)
    /\ mmu' = [mmu EXCEPT !.readers = @ \cup {p}]
    /\ mpc' = [mpc EXCEPT ![p] = "get_read"]
    /\ UNCHANGED <<mitems, mcall, mseen>>
    /\ UNCHANGED notMapping

\* Get: item, exists := m.items[sensorName]
MapGetRead(p) ==
    /\ mpc[p] = "get_read"
    /\ mcall' = [mcall EXCEPT ![p].got = MappingGet(mitems, mcall[p].name)]
    /\ mpc' = [mpc EXCEPT ![p] = "get_runlock"]
    /\ UNCHANGED <<mitems, mmu, mseen>>
    /\ UNCHANGED notMapping

\* Get: the deferred m.mu.RUnlock()
MapGetRUnlock(p) ==
    /\ mpc[p] = "get_runlock"
    /\ mmu' = [mmu EXCEPT !.readers = @ \ {p}]
    /\ mpc' = [mpc EXCEPT ![p] = "get_ret"]
    /\ UNCHANGED <<mitems, mcall, mseen>>
    /\ UNCHANGED notMapping

\* Get has returned item, exists to its caller
MapGetReturn(p) ==
    /\ mpc[p] = "get_ret"
    /\ mpc' = [mpc EXCEPT ![p] = "idle"]
    /\ mcall' = [mcall EXCEPT ![p] = NoMapCall]
    /\ mseen' = [mseen EXCEPT ![p] = {}]
    /\ UNCHANGED <<mitems, mmu>>
    /\ UNCHANGED notMapping

(***************************************************************************)
(* ------------- rule conditions and DeviceDetail.StateValue ------------- *)
(* The pure functions, applied to drawn inputs: a condition is applied to  *)
(* one metric after another, StateValue to one state string after another. *)
(***************************************************************************)
\* the conditions the builders of rule.go return
ConditionChoices ==
    {ThresholdAbove(10 * Scale), ThresholdBelow(10 * Scale),
     ThresholdBetween(10 * Scale, 15 * Scale),
     ThresholdBetween(15 * Scale, 10 * Scale),
     ThresholdEquals(10 * Scale), ThresholdEquals(0)}

\* metric values around the thresholds: 10.00005, 10.0001 and 10.01 among them
ValueChoices ==
    {0, DefaultFloatTolerance, DefaultFloatTolerance + 1,
     0 - DefaultFloatTolerance, 0 - DefaultFloatTolerance - 1,
     10 * Scale - DefaultFloatTolerance - 1, 10 * Scale - DefaultFloatTolerance,
     10 * Scale - 1, 10 * Scale, 10 * Scale + 1,
     10 * Scale + DefaultFloatTolerance \div 2,
     10 * Scale + DefaultFloatTolerance,
     10 * Scale + DefaultFloatTolerance + 1, 10 * Scale + Scale \div 100,
     12 * Scale, 15 * Scale - 1, 15 * Scale, 15 * Scale + 1}

\* alert.Metric
MetricChoices ==
    [Name : {BatterySensorName}, Unit : {"V"}, Timestamp : {0},
     Value : ValueChoices] \cup
    [Name : {DeviceStateMetricName}, Unit : {""}, Timestamp : {1},
     Value : ValueChoices]

\* DeviceDetail.State as the API sends it
StateStrings ==
    {"online", "has_published", "offline", "sleeping", "", "Online",
     "never_published", "unknown"}

NoEvaluation == [Name |-> "", Value |-> 0, holds |-> FALSE, valid |-> FALSE]

NoReading == [Name |-> "", Unit |-> "", Timestamp |-> 0, Value |-> 0]

ConditionInit ==
    /\ tcond = NoRule.Condition
    /\ tmetric = NoReading
    /\ tpc = "idle"
    /\ tholds = FALSE
    /\ tprev = NoEvaluation
    /\ tstate = ""
    /\ tvalue = StateValue("")

\* a builder of rule.go returns a condition
BuildCondition(cond) ==
    /\ tpc \in {"idle", "done"}
    /\ tcond' = cond
    /\ tmetric' = NoReading
    /\ tholds' = FALSE
    /\ tprev' = NoEvaluation
    /\ tpc' = "built"
    /\ UNCHANGED <<tstate, tvalue>>
    /\ UNCHANGED notCondition

\* rule.Condition(metric) is called
ApplyCondition ==
    /\ tpc = "ready"
    /\ tholds' = Holds(tcond, tmetric)
    /\ tpc' = "done"
    /\ UNCHANGED <<tcond, tmetric, tprev, tstate, tvalue>>
    /\ UNCHANGED notCondition

\* the caller has a metric, the first or the next, for the condition
NextMetric(metric) ==
    /\ tpc \in {"built", "done"}
    /\ tprev' = IF tpc = "done"
                    THEN [Name |-> tmetric.Name, Value |-> tmetric.Value,
                          holds |-> tholds, valid |-> TRUE]
                    ELSE NoEvaluation
    /\ tmetric' = metric
    /\ tpc' = "ready"
    /\ UNCHANGED <<tcond, tholds, tstate, tvalue>>
    /\ UNCHANGED notCondition

\* d.StateValue() of a device whose State is state
ApplyStateValue(state) ==
    /\ tstate' = state
    /\ tvalue' = StateValue(state)
    /\ UNCHANGED <<tcond, tmetric, tpc, tholds, tprev>>
    /\ UNCHANGED notCondition

(***************************************************************************)
(* --------------------------- cmd/smcjob: main -------------------------- *)
(* initAlertEngine, then evaluateDevice for one device after another; the  *)
(* job never changes the rules afterwards.                                 *)
(***************************************************************************)
MaxJobSensors == 2

JobRuleIds == {"battery_ok", "battery_low", "battery_critical_low",
               "device_online", "device_offline"}

\* the five engine.AddRule calls of initAlertEngine, in order
InitAlertRules ==
    <<[ID |-> "battery_ok", MetricName |-> BatterySensorName,
       Enabled |-> TRUE, Condition |-> BatteryAtLeast(15 * Scale),
       Action |-> <<"log">>],
      [ID |-> "battery_low", MetricName |-> BatterySensorName,
       Enabled |-> TRUE, Condition |-> BatteryWithin(10 * Scale, 15 * Scale),
       Action |-> <<"log", "notify">>],
      [ID |-> "battery_critical_low", MetricName |-> BatterySensorName,
       Enabled |-> TRUE, Condition |-> BatteryUnder(10 * Scale),
       Action |-> <<"log", "notify">>],
      [ID |-> "device_online", MetricName |-> DeviceStateMetricName,
       Enabled |-> TRUE, Condition |-> ThresholdEquals(StateValue("online")),
       Action |-> <<"log">>],
      [ID |-> "device_offline", MetricName |-> DeviceStateMetricName,
       Enabled |-> TRUE, Condition |-> ThresholdEquals(StateValue("offline")),
       Action |-> <<"log", "notify">>]>>

\* engine.AddRule for the first n rules of a list
RECURSIVE AddRules(_, _, _)
AddRules(rs, list, n) ==
    IF n = 0 THEN rs ELSE PutRule(AddRules(rs, list, n - 1), list[n])

\* the sensors of the devices the job fetches: readings 12.3, 16.0 and 8.0
\* of the battery sensor, readings at and just under the limits 10.0 and
\* 15.0 of the battery rules, and another sensor
JobSensorChoices ==
    {[Name |-> BatterySensorName, Value |-> (123 * Scale) \div 10],
     [Name |-> BatterySensorName, Value |-> 16 * Scale],
     [Name |-> BatterySensorName, Value |-> 8 * Scale],
     [Name |-> BatterySensorName, Value |-> 15 * Scale],
     [Name |-> BatterySensorName, Value |-> 15 * Scale - 1],
     [Name |-> BatterySensorName, Value |-> 10 * Scale],
     [Name |-> BatterySensorName, Value |-> 10 * Scale - 1],
     [Name |-> "Temp", Value |-> (123 * Scale) \div 10]}

JobSensorLists ==
    UNION {[1..n -> JobSensorChoices] : n \in 0..MaxJobSensors}

JobStateChoices == {"online", "offline", "sleeping"}

NoDevice == [sensors |-> <<>>, state |-> ""]

JobZeroCounts == [id \in JobRuleIds |-> 0]

\* how many of the invoked leaf actions are SendNotificationAction
NotifyCalls(invoked) ==
    Cardinality({i \in 1..Len(invoked) : invoked[i] = "notify"})

JobInit ==
    /\ jrules = [id \in JobRuleIds |-> NoRule]
    /\ jpc = "start"
    /\ jdevice = NoDevice
    /\ jcycle = <<>>
    /\ jidx = 1
    /\ jtodo = {}
    /\ jfired = JobZeroCounts
    /\ jnotified = JobZeroCounts
    /\ jdone = <<>>

\* main: initAlertEngine(appConfig, notifier, logger)
initAlertEngine ==
    /\ jpc = "start"
    /\ jrules' = AddRules(jrules, InitAlertRules, Len(InitAlertRules))
    /\ jpc' = "idle"
    /\ UNCHANGED <<jdevice, jcycle, jidx, jtodo, jfired, jnotified, jdone>>
    /\ UNCHANGED notJob

\* main: evaluateDevice(alertEngine, deviceDetail) for the next device; the
\* metrics are built
JobEvaluateDevice(sensors, state) ==
    /\ jpc \in {"idle", "d_ret"}
    /\ jdevice' = [sensors |-> sensors, state |-> state]
    /\ jcycle' = DeviceMetrics(sensors, state)
    /\ jidx' = 1
    /\ jdone' = <<>>
    /\ jfired' = JobZeroCounts
    /\ jnotified' = JobZeroCounts
    /\ jpc' = "d_loop"
    /\ UNCHANGED <<jrules, jtodo>>
    /\ UNCHANGED notJob

\* evaluateDevice: engine.Evaluate(metric) is called, the range loop starts
JobEvaluate ==
    /\ jpc = "d_loop"
    /\ jidx <= Len(jcycle)
    /\ jtodo' = {id \in JobRuleIds : jrules[id] # NoRule}
    /\ jfired' = JobZeroCounts
    /\ jnotified' = JobZeroCounts
    /\ jpc' = "e_loop"
    /\ UNCHANGED <<jrules, jdevice, jcycle, jidx, jdone>>
    /\ UNCHANGED notJob

\* Evaluate: the next rule is for another metric, is disabled, or its
\* condition returns false
JobRuleSkip ==
    /\ jpc = "e_loop"
    /\ \E id \in jtodo :
          /\ \/ jrules[id].MetricName # jcycle[jidx].Name
             \/ ~jrules[id].Enabled
             \/ ~Holds(jrules[id].Condition, jcycle[jidx])
          /\ jtodo' = jtodo \ {id}
    /\ UNCHANGED <<jrules, jpc, jdevice, jcycle, jidx, jfired, jnotified,
                   jdone>>
    /\ UNCHANGED notJob

\* Evaluate: the next rule targets the metric, is enabled and its condition
\* returns true: rule.Action is called, its error only logged
JobRuleFire ==
    /\ jpc = "e_loop"
    /\ \E id \in jtodo, sendOk \in BOOLEAN :
          /\ jrules[id].MetricName = jcycle[jidx].Name
          /\ jrules[id].Enabled
          /\ Holds(jrules[id].Condition, jcycle[jidx])
          /\ jtodo' = jtodo \ {id}
          /\ jfired' = [jfired EXCEPT ![id] = @ + 1]
          /\ jnotified' = [jnotified EXCEPT ![id] = @ +
                NotifyCalls(MultiAction(jrules[id].Action, sendOk).invoked)]
    /\ UNCHANGED <<jrules, jpc, jdevice, jcycle, jidx, jdone>>
    /\ UNCHANGED notJob

\* Evaluate returns
JobEvalReturn ==
    /\ jpc = "e_loop"
    /\ jtodo = {}
    /\ jdone' = Append(jdone, jcycle[jidx])
    /\ jpc' = "e_ret"
    /\ UNCHANGED <<jrules, jdevice, jcycle, jidx, jtodo, jfired, jnotified>>
    /\ UNCHANGED notJob

\* evaluateDevice: the loop over the metrics moves on
JobNextMetric ==
    /\ jpc = "e_ret"
    /\ jidx' = jidx + 1
    /\ jpc' = "d_loop"
    /\ UNCHANGED <<jrules, jdevice, jcycle, jtodo, jfired, jnotified, jdone>>
    /\ UNCHANGED notJob

\* evaluateDevice returns
JobDeviceReturn ==
    /\ jpc = "d_loop"
    /\ jidx > Len(jcycle)
    /\ jpc' = "d_ret"
    /\ UNCHANGED <<jrules, jdevice, jcycle, jidx, jtodo, jfired, jnotified,
                   jdone>>
    /\ UNCHANGED notJob

(***************************************************************************)
(* ------------------------- cmd/smcexporter: main ----------------------- *)
(* The startup of the exporter process up to go exporter.Start.            *)
(***************************************************************************)
\* what the process finds at startup: the configuration file, the .env file,
\* the credential environment variables, and what the API answers
Environments ==
    [configOk : BOOLEAN, dotEnvPath : {"", ".env"}, dotEnvOk : BOOLEAN,
     username : {"", "user"}, password : {"", "secret"}, token : {"", "tok"},
     tokenValid : BOOLEAN, passwordValid : BOOLEAN, pingOk : BOOLEAN]

NoEnvironment ==
    [configOk |-> FALSE, dotEnvPath |-> "", dotEnvOk |-> FALSE,
     username |-> "", password |-> "", token |-> "", tokenValid |-> FALSE,
     passwordValid |-> FALSE, pingOk |-> FALSE]

\* a mutation of RetrieveFails: only the user name is required
RetrieveFailsOnUsername(env) == env.username = ""

\* UserCredentialEnvProvider.Retrieve returns an error
RetrieveFails(env) ==
    \/ env.username = ""
    \/ env.password = "" /\ env.token = ""

\* HTTPProvider.Authenticate returns an error: a token is validated with
\* GetMe, otherwise a session is fetched with user name and password
AuthenticateFails(env) ==
    IF env.token # "" THEN ~env.tokenValid ELSE ~env.passwordValid

\* os.Exit(code)
Exit(code) ==
    /\ bpc' = "exited"
    /\ bexit' = code

BootInit ==
    /\ bpc = "off"
    /\ benv = NoEnvironment
    /\ bexit = 0
    /\ bstarted = FALSE

\* the process is started in an environment
BootLaunch(env) ==
    /\ bpc = "off"
    /\ benv' = env
    /\ bpc' = "load_config"
    /\ UNCHANGED <<bexit, bstarted>>
    /\ UNCHANGED notBoot

\* main: loadConfigFromJSONFile(configPath)
BootLoadConfig ==
    /\ bpc = "load_config"
    /\ IF benv.configOk
           THEN bpc' = "dotenv" /\ UNCHANGED bexit
           ELSE Exit(1)
    /\ UNCHANGED <<benv, bstarted>>
    /\ UNCHANGED notBoot

\* main: godotenv.Load(appConfig.DotEnvPath) when a path is set
BootDotEnv ==
    /\ bpc = "dotenv"
    /\ IF benv.dotEnvPath # "" /\ ~benv.dotEnvOk
           THEN Exit(1)
           ELSE bpc' = "retrieve" /\ UNCHANGED bexit
    /\ UNCHANGED <<benv, bstarted>>
    /\ UNCHANGED notBoot

\* initSmartCitizenProvider: smcCredProvider.Retrieve; main exits on its error
BootRetrieve ==
    /\ bpc = "retrieve"
    /\ IF RetrieveFails(benv)
           THEN Exit(1)
           ELSE bpc' = "authenticate" /\ UNCHANGED bexit
    /\ UNCHANGED <<benv, bstarted>>
    /\ UNCHANGED notBoot

\* initSmartCitizenProvider: smcProvider.Authenticate; main exits on its error
BootAuthenticate ==
    /\ bpc = "authenticate"
    /\ IF AuthenticateFails(benv)
           THEN Exit(1)
           ELSE bpc' = "ping" /\ UNCHANGED bexit
    /\ UNCHANGED <<benv, bstarted>>
    /\ UNCHANGED notBoot

\* main: smcProvider.Ping
BootPing ==
    /\ bpc = "ping"
    /\ IF benv.pingOk
           THEN bpc' = "start" /\ UNCHANGED bexit
           ELSE Exit(1)
    /\ UNCHANGED <<benv, bstarted>>
    /\ UNCHANGED notBoot

\* main: NewAPIExporterWithRegistry, go exporter.Start(ctx, interval)
BootStart ==
    /\ bpc = "start"
    /\ bstarted' = TRUE
    /\ bpc' = "serving"
    /\ UNCHANGED <<benv, bexit>>
    /\ UNCHANGED notBoot

(***************************************************************************)
(* ------------- alert.AlertingEngine called from its callbacks ---------- *)
(* A rule's Action is caller-supplied code: it may call AddRule,           *)
(* RemoveRule or Evaluate of the engine that is running it.  The lock is   *)
(* sync.RWMutex: Lock announces the writer and waits for the readers to    *)
(* leave; RLock waits while a writer holds the lock or is announced.       *)
(***************************************************************************)
Writer == "writer"

QThreads == {Poller, Writer}

Nobody == ""

QRuleIds == {"k1", "k2", "k3", "k4"}

NoQRule == [ID |-> "", MetricName |-> "", Action |-> ""]

\* the rules in use: actions that add a rule, remove a rule, evaluate another
\* metric on the same engine, and LogAction
QRuleChoices ==
    {[ID |-> "k1", MetricName |-> BatterySensorName, Action |-> "add"],
     [ID |-> "k2", MetricName |-> BatterySensorName, Action |-> "remove"],
     [ID |-> "k3", MetricName |-> BatterySensorName, Action |-> "evaluate"],
     [ID |-> "k4", MetricName |-> DeviceStateMetricName, Action |-> "log"]}

QRuleOf(id) == CHOOSE r \in QRuleChoices : r.ID = id

NoWrite == [op |-> "none", id |-> ""]

\* the AddRule / RemoveRule calls made
QWrites ==
    {[op |-> "add", id |-> id] : id \in QRuleIds}
        \cup {[op |-> "remove", id |-> id] : id \in QRuleIds}

\* what the action of a rule calls on the engine
CallbackWrite(action) ==
    IF action = "add" THEN [op |-> "add", id |-> "k4"]
    ELSE [op |-> "remove", id |-> "k4"]

Readers(m) == {p \in QThreads : m.readers[p] > 0}

\* sync.RWMutex.RLock returns: no writer holds the lock or is announced
RLockReady(m, p) == m.writer = Nobody /\ m.pending = Nobody

\* sync.RWMutex.Lock gets past the writers' mutex
LockAnnounceReady(m) == m.writer = Nobody /\ m.pending = Nobody

\* sync.RWMutex.Lock returns: the announced writer has seen the readers leave
LockReady(m, p) == m.pending = p /\ Readers(m) = {}

ReentryInit ==
    /\ qrules = [id \in QRuleIds |-> NoQRule]
    /\ qmu = [readers |-> [p \in QThreads |-> 0], writer |-> Nobody,
              pending |-> Nobody]
    /\ qpc = [p \in QThreads |-> "idle"]
    /\ qstack = <<>>
    /\ qarg = [p \in QThreads |-> NoWrite]

QTop == qstack[Len(qstack)]

QSetTodo(todo) == [qstack EXCEPT ![Len(qstack)].todo = todo]

\* the poll loop calls Evaluate(metric)
CallEvaluate(name) ==
    /\ qpc[Poller] = "idle"
    /\ qstack' = <<[metric |-> name, todo |-> {}]>>
    /\ qpc' = [qpc EXCEPT ![Poller] = "q_rlock"]
    /\ UNCHANGED <<qrules, qmu, qarg>>
    /\ UNCHANGED notReentry

\* Evaluate: e.mu.RLock() returns, the range loop over e.rules starts
CbRLock ==
    /\ qpc[Poller] = "q_rlock"
    /\ RLockReady(qmu, Poller)
    /\ qmu' = [qmu EXCEPT !.readers[Poller] = @ + 1]
    /\ qstack' = QSetTodo({id \in QRuleIds : qrules[id] # NoQRule})
    /\ qpc' = [qpc EXCEPT ![Poller] = "q_loop"]
    /\ UNCHANGED <<qrules, qarg>>
    /\ UNCHANGED notReentry

\* Evaluate: the rule is for another metric
CbSkip ==
    /\ qpc[Poller] = "q_loop"
    /\ \E id \in QTop.todo :
          /\ qrules[id].MetricName # QTop.metric
          /\ qstack' = QSetTodo(QTop.todo \ {id})
    /\ UNCHANGED <<qrules, qmu, qpc, qarg>>
    /\ UNCHANGED notReentry

\* Evaluate: rule.Action is LogAction and returns
CbLog ==
    /\ qpc[Poller] = "q_loop"
    /\ \E id \in QTop.todo :
          /\ qrules[id].MetricName = QTop.metric
          /\ qrules[id].Action = "log"
          /\ qstack' = QSetTodo(QTop.todo \ {id})
    /\ UNCHANGED <<qrules, qmu, qpc, qarg>>
    /\ UNCHANGED notReentry

\* Evaluate: rule.Action calls AddRule or RemoveRule of the engine
CbWrite ==
    /\ qpc[Poller] = "q_loop"
    /\ \E id \in QTop.todo :
          /\ qrules[id].MetricName = QTop.metric
          /\ qrules[id].Action \in {"add", "remove"}
          /\ qstack' = QSetTodo(QTop.todo \ {id})
          /\ qarg' = [qarg EXCEPT ![Poller] = CallbackWrite(qrules[id].Action)]
    /\ qpc' = [qpc EXCEPT ![Poller] = "q_lock"]
    /\ UNCHANGED <<qrules, qmu>>
    /\ UNCHANGED notReentry

\* Evaluate: rule.Action calls Evaluate of the engine with another metric
CbReenter ==
    /\ qpc[Poller] = "q_loop"
    /\ \E id \in QTop.todo :
          /\ qrules[id].MetricName = QTop.metric
          /\ qrules[id].Action = "evaluate"
          /\ qstack' = Append(QSetTodo(QTop.todo \ {id}),
                              [metric |-> DeviceStateMetricName, todo |-> {}])
    /\ qpc' = [qpc EXCEPT ![Poller] = "q_rlock"]
    /\ UNCHANGED <<qrules, qmu, qarg>>
    /\ UNCHANGED notReentry

\* Evaluate: the range loop is over, the deferred RUnlock, return
CbReturn ==
    /\ qpc[Poller] = "q_loop"
    /\ QTop.todo = {}
    /\ qmu' = [qmu EXCEPT !.readers[Poller] = @ - 1]
    /\ qstack' = SubSeq(qstack, 1, Len(qstack) - 1)
    /\ qpc' = [qpc EXCEPT ![Poller] = IF Len(qstack) = 1 THEN "idle"
                                       ELSE "q_loop"]
    /\ UNCHANGED <<qrules, qarg>>
    /\ UNCHANGED notReentry

\* another goroutine calls AddRule or RemoveRule
CallWrite(w) ==
    /\ qpc[Writer] = "idle"
    /\ qarg' = [qarg EXCEPT ![Writer] = w]
    /\ qpc' = [qpc EXCEPT ![Writer] = "q_lock"]
    /\ UNCHANGED <<qrules, qmu, qstack>>
    /\ UNCHANGED notReentry

\* AddRule / RemoveRule: e.mu.Lock() announces the writer
WLock(p) ==
    /\ qpc[p] = "q_lock"
    /\ LockAnnounceReady(qmu)
    /\ qmu' = [qmu EXCEPT !.pending = p]
    /\ qpc' = [qpc EXCEPT ![p] = "q_wait"]
    /\ UNCHANGED <<qrules, qstack, qarg>>
    /\ UNCHANGED notReentry

\* AddRule / RemoveRule: e.mu.Lock() returns
WLockAcquire(p) ==
    /\ qpc[p] = "q_wait"
    /\ LockReady(qmu, p)
    /\ qmu' = [qmu EXCEPT !.pending = Nobody, !.writer = p]
    /\ qpc' = [qpc EXCEPT ![p] = "q_store"]
    /\ UNCHANGED <<qrules, qstack, qarg>>
    /\ UNCHANGED notReentry

\* AddRule / RemoveRule: the write to e.rules, the deferred Unlock, return
WStore(p) ==
    /\ qpc[p] = "q_store"
    /\ qrules' = [qrules EXCEPT ![qarg[p].id] =
                     IF qarg[p].op = "add" THEN QRuleOf(qarg[p].id)
                     ELSE NoQRule]
    /\ qmu' = [qmu EXCEPT !.writer = Nobody]
    /\ qarg' = [qarg EXCEPT ![p] = NoWrite]
    /\ qpc' = [qpc EXCEPT ![p] = IF p = Poller THEN "q_loop" ELSE "idle"]
    /\ UNCHANGED qstack
    /\ UNCHANGED notReentry

(***************************************************************************)
(* ----------- smartcitizen.APIExporter.Start: the loop for ever --------- *)
(* The control of Start with the cycles not counted, so that the loop can  *)
(* go round without end: what a cycle fetches and writes is left out, a    *)
(* provider call is in flight until it returns.                            *)
(***************************************************************************)
MaxLate == 2

\* cycles begun after cancel(), counted up to MaxLate
LateCycles(n, cancelled) ==
    IF cancelled /\ n < MaxLate THEN n + 1 ELSE n

LoopInit ==
    /\ ypc = "start"
    /\ yctx = FALSE
    /\ ytick = FALSE
    /\ ycall = 0
    /\ yfailed = FALSE
    /\ ylate = 0

\* Start(ctx, interval): updateMetrics runs at once, GetMe is in flight
LoopEnter ==
    /\ ypc = "start"
    /\ ypc' = "call"
    /\ ycall' = 0
    /\ yfailed' = FALSE
    /\ ylate' = LateCycles(ylate, yctx)
    /\ UNCHANGED <<yctx, ytick>>
    /\ UNCHANGED notLoop

\* cancel(), from the main goroutine
LoopCancel ==
    /\ ~yctx
    /\ yctx' = TRUE
    /\ UNCHANGED <<ypc, ytick, ycall, yfailed, ylate>>
    /\ UNCHANGED notLoop

\* the ticker puts a tick in its channel (of capacity one)
LoopTick ==
    /\ ypc \notin {"start", "returned"}
    /\ ~ytick
    /\ ytick' = TRUE
    /\ UNCHANGED <<ypc, yctx, ycall, yfailed, ylate>>
    /\ UNCHANGED notLoop

\* fetchAPIData: the provider call in flight (GetMe, then GetDevice of each
\* device) returns, with a result or with an error
LoopCallReturn(ok) ==
    /\ ypc = "call"
    /\ IF ~ok
           THEN ypc' = "updated" /\ yfailed' = TRUE /\ UNCHANGED ycall
       ELSE IF ycall < Len(UserDevices)
           THEN ycall' = ycall + 1 /\ UNCHANGED <<ypc, yfailed>>
       ELSE ypc' = "convert" /\ UNCHANGED <<ycall, yfailed>>
    /\ UNCHANGED <<yctx, ytick, ylate>>
    /\ UNCHANGED notLoop

\* updateMetrics: processAPIData(data) returns
LoopConvert ==
    /\ ypc = "convert"
    /\ ypc' = "updated"
    /\ UNCHANGED <<yctx, ytick, ycall, yfailed, ylate>>
    /\ UNCHANGED notLoop

\* updateMetrics returns: Start is at its select
LoopUpdated ==
    /\ ypc = "updated"
    /\ ypc' = "select"
    /\ UNCHANGED <<yctx, ytick, ycall, yfailed, ylate>>
    /\ UNCHANGED notLoop

\* select: case <-ctx.Done(): return
LoopSelectDone ==
    /\ ypc = "select"
    /\ yctx
    /\ ypc' = "returned"
    /\ UNCHANGED <<yctx, ytick, ycall, yfailed, ylate>>
    /\ UNCHANGED notLoop

\* select: case <-ticker.C: updateMetrics(ctx)
LoopSelectTick ==
    /\ ypc = "select"
    /\ ytick
    /\ ytick' = FALSE
    /\ ypc' = "call"
    /\ ycall' = 0
    /\ yfailed' = FALSE
    /\ ylate' = LateCycles(ylate, yctx)
    /\ UNCHANGED yctx
    /\ UNCHANGED notLoop

(***************************************************************************)
(* Specifications.                                                         *)
(***************************************************************************)
Init ==
    /\ RegInit /\ LegacyInit /\ ConvInit /\ AlertInit /\ ExporterInit
    /\ SensorInit /\ MappingInit /\ ConditionInit /\ JobInit /\ BootInit
    /\ ReentryInit /\ LoopInit

\* callers use GetOrCreate<Kind> only
NextGetOrCreate ==
    \E p \in Threads :
        \/ GetOrCreateCall(p)
        \/ GocRLock(p)
        \/ GocFound(p)
        \/ GocFoundOtherKind(p)
        \/ GocMissing(p)
        \/ RegRLock(p)
        \/ RegExists(p)
        \/ RegMissing(p)
        \/ RegPromOk(p)
        \/ RegPromFail(p)
        \/ RegLock(p)
        \/ RegStore(p)

SpecGetOrCreate == Init /\ [][NextGetOrCreate]_vars

\* callers use GetOrCreate<Kind> and Register
NextRegistry ==
    \E p \in Threads :
        \/ GetOrCreateCall(p)
        \/ RegisterCall(p)
        \/ GocRLock(p)
        \/ GocFound(p)
        \/ GocFoundOtherKind(p)
        \/ GocMissing(p)
        \/ RegRLock(p)
        \/ RegExists(p)
        \/ RegMissing(p)
        \/ RegPromOk(p)
        \/ RegPromFail(p)
        \/ RegLock(p)
        \/ RegStore(p)

SpecRegistry == Init /\ [][NextRegistry]_vars

\* the poll loop of the registry variant with converters
NextLegacy ==
    \/ \E name \in TypeTags \cup {"User"} : ConvertAndRegister(name)
    \/ LegacyConvertErr
    \/ LegacyConvertOk
    \/ LegacyRegisterOk
    \/ LegacyRegisterAlready
    \/ LegacyRegisterErr

SpecLegacy == Init /\ [][NextLegacy]_vars

\* the poll loop converting values, and the threads that add converters
NextConverter ==
    \/ \E new \in AddArgs : Add(new)
    \/ \E data \in DataValues : Convert(data)
    \/ ConvertNoMatch
    \/ ConvertMatch
    \/ ConvertOk
    \/ ConvertFail
    \/ ConvertReturn
    \/ ConvertDone

InitConverter ==
    /\ RegInit /\ LegacyInit /\ NewCombinedConverter /\ AlertInit
    /\ ExporterInit /\ SensorInit /\ MappingInit /\ ConditionInit
    /\ JobInit /\ BootInit /\ ReentryInit /\ LoopInit

SpecConverter == InitConverter /\ [][NextConverter]_vars

\* the poll loop evaluating devices, and the threads that change the rules
NextAlert ==
    \/ \E rule \in RuleChoices : AddRule(rule)
    \/ \E id \in RuleIds : RemoveRule(id)
    \/ \E sensors \in SensorLists, state \in StateChoices :
          evaluateDevice(sensors, state)
    \/ Evaluate
    \/ EvalSkipOtherMetric
    \/ EvalSkipDisabled
    \/ EvalCallCondition
    \/ EvalCondition
    \/ EvalAction
    \/ EvalReturn
    \/ EvalNextMetric
    \/ DeviceReturn

SpecAlert == Init /\ [][NextAlert]_vars

\* APIExporter.Start with cancel() and the ticker
NextExporter ==
    \/ Start
    \/ Cancel
    \/ Tick
    \/ SelectDone
    \/ SelectTick
    \/ GetMeOk
    \/ GetMeErr
    \/ GetDeviceOk
    \/ GetDeviceNil
    \/ GetDeviceErr
    \/ FetchDone
    \/ CountFetchError
    \/ CountSuccess
    \/ ConvertDetailOk
    \/ ConvertDetailErr
    \/ ConvertSensorOk
    \/ ConvertSensorErr
    \/ SensorsDone
    \/ ProcessDone
    \/ CycleDone

SpecExporter == Init /\ [][NextExporter]_vars

\* DeviceSensorConverter.Convert with SensorMetricMapping.Add
NextSensor ==
    \/ \E m \in MappingChoices : MappingAdd(m.name, m.item)
    \/ \E reading \in SensorReadings : SensorConvertInvalid(reading)
    \/ \E reading \in SensorReadings : SensorConvert(reading)
    \/ SensorSet
    \/ SensorDone

SpecSensor == Init /\ [][NextSensor]_vars

\* SensorMetricMapping.Add and Get from several threads
NextMapping ==
    \/ \E p \in Threads, m \in MappingChoices : MapAdd(p, m.name, m.item)
    \/ \E p \in Threads : MapAddLock(p)
    \/ \E p \in Threads : MapAddWrite(p)
    \/ \E p \in Threads : MapAddUnlock(p)
    \/ \E p \in Threads, name \in SensorNames : MapGet(p, name)
    \/ \E p \in Threads : MapGetRLock(p)
    \/ \E p \in Threads : MapGetRead(p)
    \/ \E p \in Threads : MapGetRUnlock(p)
    \/ \E p \in Threads : MapGetReturn(p)

SpecMapping == Init /\ [][NextMapping]_vars

\* the rule conditions and StateValue applied to drawn inputs
NextCondition ==
    \/ \E cond \in ConditionChoices : BuildCondition(cond)
    \/ ApplyCondition
    \/ \E metric \in MetricChoices : NextMetric(metric)
    \/ \E state \in StateStrings : ApplyStateValue(state)

SpecCondition == Init /\ [][NextCondition]_vars

\* smcjob: initAlertEngine and the device loop of main
NextJob ==
    \/ initAlertEngine
    \/ \E sensors \in JobSensorLists, state \in JobStateChoices :
          JobEvaluateDevice(sensors, state)
    \/ JobEvaluate
    \/ JobRuleSkip
    \/ JobRuleFire
    \/ JobEvalReturn
    \/ JobNextMetric
    \/ JobDeviceReturn

SpecJob == Init /\ [][NextJob]_vars

\* smcexporter: the startup of main
NextBoot ==
    \/ \E env \in Environments : BootLaunch(env)
    \/ BootLoadConfig
    \/ BootDotEnv
    \/ BootRetrieve
    \/ BootAuthenticate
    \/ BootPing
    \/ BootStart

SpecBoot == Init /\ [][NextBoot]_vars

\* the engine with actions that call it, and a goroutine writing the rules
NextReentry ==
    \/ \E name \in {BatterySensorName, DeviceStateMetricName} :
          CallEvaluate(name)
    \/ CbRLock
    \/ CbSkip
    \/ CbLog
    \/ CbWrite
    \/ CbReenter
    \/ CbReturn
    \/ \E w \in QWrites : CallWrite(w)
    \/ \E p \in QThreads : WLock(p)
    \/ \E p \in QThreads : WLockAcquire(p)
    \/ \E p \in QThreads : WStore(p)

SpecReentry == Init /\ [][NextReentry]_vars

\* the steps of the goroutine of Start
LoopGoroutine ==
    \/ LoopEnter
    \/ \E ok \in BOOLEAN : LoopCallReturn(ok)
    \/ LoopConvert
    \/ LoopUpdated
    \/ LoopSelectDone
    \/ LoopSelectTick

\* Start with cancel() and the ticker
NextLoop ==
    \/ LoopEnter
    \/ LoopCancel
    \/ LoopTick
    \/ \E ok \in BOOLEAN : LoopCallReturn(ok)
    \/ LoopConvert
    \/ LoopUpdated
    \/ LoopSelectDone
    \/ LoopSelectTick

\* weak fairness: the goroutine of Start is scheduled, a provider call in
\* flight returns, and a case of the select that stays ready is taken
SpecLoop ==
    /\ Init
    /\ [][NextLoop]_vars
    /\ WF_vars(LoopGoroutine)
    /\ WF_vars(\E ok \in BOOLEAN : LoopCallReturn(ok))
    /\ WF_vars(LoopSelectDone)
    /\ WF_vars(LoopSelectTick)

(***************************************************************************)
(* Properties.                                                             *)
(***************************************************************************)

\* C1: all GetOrCreate<Kind> callers of one name receive the identical
\* collector instance, so a single instance exists per name.
C1_OneInstancePerName ==
    \A n \in Names : Cardinality(returned[n]) <= 1

\* a GetOrCreate<Kind> call between its lookup that missed and its insertion
Creating(p, n) ==
    /\ call[p].op = "GetOrCreate"
    /\ call[p].name = n
    /\ pc[p] \in {"reg_rlock", "reg_read", "reg_prom", "reg_lock", "reg_store"}

\* C2: lookup-or-create is one critical section: while one caller is between
\* its missed lookup and its insertion, no other caller has missed the same
\* name, so two callers never both create a collector for one name.
C2_AtomicLookupOrCreate ==
    \A n \in Names : Cardinality({p \in Threads : Creating(p, n)}) <= 1

\* C3: once the map holds a collector under a name it holds that same
\* instance in every later state (never overwritten, never removed).
C3_EntryNeverChanges ==
    \A n \in Names : collectors[n] = firstStored[n]

\* C4: no operation of the registry takes a collector off the exposition
\* surface or replaces one that is registered.
C4_NeverUnregisters ==
    [][exposition \subseteq exposition']_vars

\* C5: concurrent GetOrCreate<Kind> calls never reach the registration-failure
\* branch of Register (no duplicate-registration error).
C5_NoRegistrationError ==
    regErrors = {}

\* C6: a GetOrCreate<Kind>Vec call that finds its name returns the collector
\* first stored under it, with the label schema of that creation, whatever
\* labels the call passes, and leaves the stored collector as it was.
C6_FoundReturnsFirstCollector ==
    lastHit # NoHit =>
        /\ lastHit.coll = firstStored[lastHit.name]
        /\ collectors[lastHit.name] = firstStored[lastHit.name]

\* a later call asked for another label schema than the stored collector has
C6_Witness ==
    /\ lastHit # NoHit
    /\ lastHit.kind \in VecKinds
    /\ lastHit.labels # lastHit.coll.labels

\* the rule is stored, targets the metric and is enabled
Targets(r, m) == r # NoRule /\ r.MetricName = m.Name /\ r.Enabled

\* the rule's action is due for the metric
ShouldFire(r, m) == Targets(r, m) /\ Holds(r.Condition, m)

\* C7: an action error neither interrupts the Evaluate call (every stored
\* rule that targets the metric, is enabled and whose condition holds has its
\* action invoked) nor the cycle (every metric of evaluateDevice is evaluated).
C7_ActionErrorIsolated ==
    /\ epc = "e_ret" =>
          \A id \in RuleIds :
              ShouldFire(esnap[id], emetric) => efired[id] >= 1
    /\ epc = "e_ret" => edone = SubSeq(ecycle, 1, eidx)
    /\ epc \in {"idle", "d_ret"} => edone = SubSeq(ecycle, 1, eidx - 1)
    /\ epc = "d_ret" => edone = ecycle

\* the action of r2 failed and all three rules had their action invoked
C7_Witness ==
    /\ epc = "e_ret"
    /\ "r2" \in eerrs
    /\ \A id \in RuleIds : efired[id] = 1

\* C8: in one Evaluate call the condition of a rule is applied exactly when
\* the rule targets the metric and is enabled, and its action is invoked once
\* exactly when that condition returned true.
C8_EvaluateCallsExactly ==
    \A id \in RuleIds :
        /\ econd[id] <= (IF Targets(esnap[id], emetric) THEN 1 ELSE 0)
        /\ efired[id] <= (IF ShouldFire(esnap[id], emetric) THEN 1 ELSE 0)
        /\ epc = "e_ret" =>
              /\ econd[id] = (IF Targets(esnap[id], emetric) THEN 1 ELSE 0)
              /\ efired[id] = (IF ShouldFire(esnap[id], emetric) THEN 1 ELSE 0)

\* one Evaluate call with a rule fired, a rule whose condition was false and
\* a stored rule that was skipped
C8_Witness ==
    /\ epc = "e_ret"
    /\ \E a, b, c \in RuleIds :
          /\ efired[a] = 1
          /\ econd[b] = 1 /\ efired[b] = 0
          /\ esnap[c] # NoRule /\ econd[c] = 0

\* C9: no lock is held while a rule's Condition or Action, or a converter's
\* Convert, is running.
C9_NoLockAcrossCallbacks ==
    /\ epc \in {"e_cond", "e_action"} => emu.readers = {} /\ emu.writer = None
    /\ cpc = "c_convert" => cmu.readers = {} /\ cmu.writer = None

\* C10: a Convert call that returns nil has invoked exactly the registered
\* converters whose Match accepts the value's type tag, once each, in the
\* order of registration.
C10_DispatchInOrder ==
    (cpc = "c_ret" /\ cret = "nil") =>
        cinvoked = SelectSeq(csnap, LAMBDA c : Match(c, getTypeName(cdata)))

\* two different converters matched and ran, another was passed over
C10_Witness ==
    /\ cpc = "c_ret"
    /\ cret = "nil"
    /\ Len(cinvoked) >= 2
    /\ Len(cinvoked) < Len(csnap)
    /\ cinvoked[1] # cinvoked[2]

\* no converter registered when Convert took the lock accepts the value's tag
NoConverterMatches ==
    \A i \in 1..Len(csnap) : csnap[i].tag # getTypeName(cdata)

C12_FailureIsolatedToItem ==
    (xpc = "u_ret" /\ ~xfetchFailed) =>
        \A i \in 1..Len(xfetched) :
            <<xfetched[i], Detail>> \notin xfailed =>
                /\ xvalues[<<xfetched[i], Detail>>] = "new"
                /\ \A j \in 1..Len(DeviceSensors) :
                      <<xfetched[i], DeviceSensors[j]>> \notin xfailed =>
                          xvalues[<<xfetched[i], DeviceSensors[j]>>] = "new"

\* C13: a cycle whose fetch fails (GetMe or any GetDevice) writes no device
\* or sensor metric, adds exactly one to api_errors_total{type=fetch_error}
\* and leaves the success counter as it was.
C13_FetchFailureWritesNothing ==
    /\ xpc \in {"u_me", "u_dev", "u_fail"} =>
          \A it \in Items : xvalues[it] # "new"
    /\ (xpc = "u_ret" /\ xfetchFailed) =>
          /\ \A it \in Items : xvalues[it] # "new"
          /\ xcounters.fetch_error = xbefore.fetch_error + 1
          /\ xcounters.success = xbefore.success
          /\ xcounters.mapping_error = xbefore.mapping_error

\* a later cycle failed at its second device: the first was fetched, and the
\* values written by the earlier cycle are still there
C13_Witness ==
    /\ xpc = "u_ret"
    /\ xfetchFailed
    /\ Len(xfetched) >= 1
    /\ xcycle >= 2
    /\ \E it \in Items : xvalues[it] = "old"

\* C14: no updateMetrics call starts in a state where the context is already
\* cancelled.
C14_NoCycleAfterCancel ==
    [][xcycle' # xcycle => ~xctx]_vars

\* C15: rules are level-triggered: in every Evaluate call an enabled rule
\* whose metric name matches and whose condition holds has its action invoked
\* once, whether or not it was invoked in the rule's previous evaluation.
C15_LevelTriggered ==
    epc = "e_ret" =>
        \A id \in RuleIds :
            ShouldFire(esnap[id], emetric) =>
                /\ eprev[id] => efired[id] = 1
                /\ ~eprev[id] => efired[id] = 1

\* a rule's action ran in two successive evaluations of the rule
C15_Witness ==
    /\ epc = "e_ret"
    /\ \E id \in RuleIds : eprev[id] /\ efired[id] = 1

\* the ids under which a rule is stored
StoredIds(rs) == {id \in RuleIds : rs[id] # NoRule}

\* C16: AddRule(rule) leaves exactly the given rule under rule.ID, leaves
\* every rule under another id as it was, and does not grow the set when the
\* id was in use.
C16_AddRuleInsertsOrReplaces ==
    [][\A r \in RuleChoices :
          AddRule(r) =>
              /\ rules'[r.ID] = r
              /\ \A j \in RuleIds \ {r.ID} : rules'[j] = rules[j]
              /\ rules[r.ID] # NoRule =>
                    Cardinality(StoredIds(rules')) = Cardinality(StoredIds(rules))
              /\ rules[r.ID] = NoRule =>
                    Cardinality(StoredIds(rules')) = Cardinality(StoredIds(rules)) + 1
      ]_vars

\* AddRule has replaced a rule by a different one while another id is in use
C16_Witness ==
    /\ elast.op = "add"
    /\ elast.old # NoRule
    /\ elast.old # rules[elast.id]
    /\ Cardinality(StoredIds(rules)) >= 2

\* C17: RemoveRule(id) deletes the rule under id if there is one and changes
\* nothing otherwise, never touches a rule under another id, and an Evaluate
\* call that starts after the removal neither applies the condition nor
\* invokes the action of the removed rule.
C17_RemoveRuleDeletes ==
    /\ [](epc \in {"e_loop", "e_cond", "e_action"} =>
            /\ esnap = rules
            /\ \A id \in RuleIds :
                  rules[id] = NoRule => econd[id] = 0 /\ efired[id] = 0)
    /\ [][\A id \in RuleIds :
            RemoveRule(id) =>
                /\ rules'[id] = NoRule
                /\ \A j \in RuleIds \ {id} : rules'[j] = rules[j]
                /\ rules[id] = NoRule => rules' = rules
        ]_vars

\* RemoveRule has deleted a stored rule while another id is in use
C17_Witness ==
    /\ elast.op = "remove"
    /\ elast.old # NoRule
    /\ rules[elast.id] = NoRule
    /\ StoredIds(rules) # {}

\* C18: MultiAction invokes its actions in the given order up to and
\* including the first that returns an error, returns that error, and invokes
\* all of them and returns nil when none fails; the engine records (logs)
\* the error.
C18_MultiActionShortCircuit ==
    erun # NoRun =>
        LET n == Len(erun.invoked)
        IN /\ n >= 1
           /\ n <= Len(erun.action)
           /\ erun.invoked = SubSeq(erun.action, 1, n)
           /\ \A i \in 1..(n - 1) : ~LeafErr(erun.action[i], erun.sendOk)
           /\ erun.err <=> LeafErr(erun.action[n], erun.sendOk)
           /\ ~erun.err => n = Len(erun.action)
           /\ erun.err => eerrs # {}

\* the second of three actions failed: the third was not invoked
C18_Witness ==
    /\ erun.err
    /\ Len(erun.action) = 3
    /\ Len(erun.invoked) = 2

\* C19: last write wins: for every label set the gauge of its most recent
\* conversion holds the value of that conversion, however many conversions
\* (with equal or different values) came before.
C19_LastWriteWins ==
    /\ \A l \in SensorLabelSets :
          slatest[l] # NoConversion =>
              GaugeValue(sgauges, <<slatest[l].metric, l>>)
                  = <<slatest[l].value>>
    /\ (spc = "s_ret" /\ slast.ret = "nil") =>
          GaugeValue(sgauges, <<slast.metric, slast.labels>>)
              = <<slast.reading.Value>>

\* a reading was converted onto a gauge that held another value
C19_Witness ==
    /\ spc = "s_ret"
    /\ slast.ret = "nil"
    /\ slast.before # Absent
    /\ slast.before # <<slast.reading.Value>>

\* the name Convert must have used for what the lookup returned
ExpectedSensorMetric(conv) ==
    IF ~conv.found \/ conv.item.Metric = ""
        THEN "sensor_state"
        ELSE "sensor_" \o conv.item.Category \o "_" \o conv.item.Metric

\* C20: an unmapped sensor name is no error: Get finds exactly the names that
\* were added, and Convert of a sensor reading returns nil after writing the
\* value to 'sensor_state' when nothing is found or the found Metric is
\* empty, and to 'sensor_<category>_<metric>' otherwise.
C20_UnmappedFallsBack ==
    (spc = "s_ret" /\ slast.reading.typed) =>
        /\ slast.ret = "nil"
        /\ slast.found <=> slast.added
        /\ slast.metric = ExpectedSensorMetric(slast)
        /\ GaugeValue(sgauges, <<slast.metric, slast.labels>>)
              = <<slast.reading.Value>>

\* a reading whose name was never added went to the generic metric
C20_Witness ==
    /\ spc = "s_ret"
    /\ slast.reading.typed
    /\ ~slast.found
    /\ slast.reading.sensor.Name = "Noise"
    /\ slast.labels.id = "13"
    /\ slast.metric = "sensor_state"
    /\ slast.ret = "nil"
    /\ sadded # {}

\* what Get returns for a name whose map entry is v
GetOfEntry(v) == MappingGet([n \in {"n"} |-> v], "n")

\* C21: Get is race-safe with concurrent Add: while an Add holds the write
\* lock (and writes the map) no Get holds the read lock or reads and no other
\* Add writes, and what a Get returns is the entry of its name as it was when
\* the Get was called or as one of the Adds during the call left it.
C21_GetRaceSafe ==
    /\ \A p \in Threads :
          mpc[p] \in {"add_write", "add_unlock"} =>
              /\ mmu.writer = p
              /\ mmu.readers = {}
              /\ \A q \in Threads \ {p} :
                    mpc[q] \notin {"add_write", "add_unlock", "get_read",
                                   "get_runlock"}
    /\ \A p \in Threads :
          mpc[p] = "get_ret" =>
              \E v \in mseen[p] : mcall[p].got = GetOfEntry(v)

\* a Get returned the entry an Add wrote while the Get was waiting
C21_Witness ==
    \E p \in Threads :
        /\ mpc[p] = "get_ret"
        /\ Cardinality(mseen[p]) > 1
        /\ mcall[p].got.exists
        /\ mcall[p].got.item = [Metric |-> "battery", Category |-> "power"]

\* C22: ThresholdEquals(target) holds exactly for the values at most the
\* tolerance 0.0001 away from target, the two boundary values included; for
\* target 10.0 it holds for 10.00005 and not for 10.01.
C22_EqualsWithinTolerance ==
    (tpc = "done" /\ tcond.kind = "equals") =>
        /\ tholds <=> /\ tmetric.Value >= tcond.lo - Scale \div 10000
                      /\ tmetric.Value <= tcond.lo + Scale \div 10000
        /\ (tcond.lo = 10 * Scale /\ tmetric.Value = 10 * Scale + Scale \div 20000)
              => tholds
        /\ (tcond.lo = 10 * Scale /\ tmetric.Value = 10 * Scale + Scale \div 100)
              => ~tholds

\* ThresholdEquals(10.0) was applied to 10.0001, the boundary, and held
C22_Witness ==
    /\ tpc = "done"
    /\ tcond = ThresholdEquals(10 * Scale)
    /\ tmetric.Value = 10 * Scale + Scale \div 10000
    /\ tholds

\* C23: StateValue is total over the state string: 1.0 for "online" and
\* "has_published", 0.0 for "offline", 0.5 for "sleeping", -1.0 for every
\* other string, the empty string included.
C23_StateValueTotal ==
    /\ tstate \in {"online", "has_published"} => tvalue = Scale
    /\ tstate = "offline" => tvalue = 0
    /\ tstate = "sleeping" => 2 * tvalue = Scale
    /\ tstate \notin {"online", "has_published", "offline", "sleeping"}
          => tvalue = 0 - Scale

\* StateValue was applied to "has_published"
C23_Witness ==
    /\ tstate = "has_published"
    /\ tvalue = Scale

\* C30: the threshold conditions depend on the metric's value only: above is
\* value > t, below is value < t, between is min <= value <= max, whatever the
\* metric's name, unit and timestamp and whatever was evaluated before.
C30_ThresholdsPure ==
    tpc = "done" =>
        /\ tcond.kind = "above" => (tholds <=> tmetric.Value > tcond.lo)
        /\ tcond.kind = "below" => (tholds <=> tmetric.Value < tcond.lo)
        /\ tcond.kind = "between" =>
              (tholds <=> (tcond.lo <= tmetric.Value /\ tmetric.Value <= tcond.hi))
        /\ (tprev.valid /\ tprev.Value = tmetric.Value) => tholds = tprev.holds

\* ThresholdBetween(10, 15) held for two metrics of value 15.0, the upper
\* bound, that differ in name, unit and timestamp
C30_Witness ==
    /\ tpc = "done"
    /\ tcond = ThresholdBetween(10 * Scale, 15 * Scale)
    /\ tmetric.Value = 15 * Scale
    /\ tholds
    /\ tprev.valid
    /\ tprev.Value = tmetric.Value
    /\ tprev.Name # tmetric.Name

\* the metric whose Evaluate call has just returned
JobEvaluated == jcycle[jidx]

\* C24: with the rules of initAlertEngine, Evaluate of a "Battery SCK" reading
\* of 12.3 invokes the notify action of battery_low once and no other rule's;
\* a reading of 16.0 does not fire battery_low; a reading of 8.0 fires
\* battery_critical_low and not battery_low.
C24_BatteryScenario ==
    (jpc = "e_ret" /\ JobEvaluated.Name = "Battery SCK") =>
        /\ JobEvaluated.Value = (123 * Scale) \div 10 =>
              /\ jfired["battery_low"] = 1
              /\ jnotified["battery_low"] = 1
              /\ \A id \in JobRuleIds \ {"battery_low"} : jnotified[id] = 0
        /\ JobEvaluated.Value = 16 * Scale =>
              /\ jfired["battery_low"] = 0
              /\ jnotified["battery_low"] = 0
        /\ JobEvaluated.Value = 8 * Scale =>
              /\ jfired["battery_critical_low"] = 1
              /\ jnotified["battery_critical_low"] = 1
              /\ jfired["battery_low"] = 0
              /\ jnotified["battery_low"] = 0

\* the reading 12.3 was evaluated and battery_low notified
C24_Witness ==
    /\ jpc = "e_ret"
    /\ JobEvaluated = [Name |-> "Battery SCK", Value |-> (123 * Scale) \div 10]
    /\ jnotified["battery_low"] = 1

\* C25: evaluateDevice calls Evaluate once per sensor, in sensor order, and
\* then exactly once for the metric "Device State" whose value is the device's
\* StateValue: number of sensors + 1 calls in all.
C25_FlatMetricSequence ==
    LET n == Len(jdevice.sensors)
    IN /\ Len(jdone) <= n + 1
       /\ \A i \in 1..Len(jdone) :
             IF i <= n
                 THEN /\ jdone[i].Name = jdevice.sensors[i].Name
                      /\ jdone[i].Value = jdevice.sensors[i].Value
                 ELSE /\ jdone[i].Name = "Device State"
                      /\ jdone[i].Value = StateValue(jdevice.state)
       /\ jpc = "d_ret" => Len(jdone) = n + 1

\* evaluateDevice returned for a device with two different sensors
C25_Witness ==
    /\ jpc = "d_ret"
    /\ Len(jdevice.sensors) = 2
    /\ jdevice.sensors[1] # jdevice.sensors[2]
    /\ Len(jdone) = 3

\* the configuration errors of the claim: the file cannot be loaded, the user
\* name or both password and token are missing, the API rejects the token or,
\* without a token, the password
ConfigurationError ==
    \/ ~benv.configOk
    \/ benv.username = ""
    \/ benv.password = "" /\ benv.token = ""
    \/ benv.token # "" /\ ~benv.tokenValid
    \/ benv.token = "" /\ ~benv.passwordValid

\* C26: with a configuration error the process never starts the poll loop,
\* and when it exits it exits non-zero; it never runs past the startup.
C26_ConfigErrorFatal ==
    (bpc # "off" /\ ConfigurationError) =>
        /\ ~bstarted
        /\ bpc \notin {"start", "serving"}
        /\ bpc = "exited" => bexit # 0

\* the process exited with 1 at Retrieve: user name set, neither password
\* nor token
C26_Witness ==
    /\ bpc = "exited"
    /\ bexit = 1
    /\ benv.configOk
    /\ benv.username # ""
    /\ benv.password = ""
    /\ benv.token = ""
    /\ benv.passwordValid
    /\ benv.pingOk

\* the converters registered when Convert took the lock whose Match accepts
\* the value, in registration order
MatchingConverters ==
    SelectSeq(csnap, LAMBDA c : ~cdata.ptr /\ c.tag = cdata.name)

\* the converter's type assertion does not hold for the value
Rejects(c) == c.pkg # cdata.pkg \/ c.tag # cdata.name \/ cdata.ptr

\* the first matching converter that fails, 0 when none does
FirstRejecting ==
    IF \E i \in 1..Len(MatchingConverters) : Rejects(MatchingConverters[i])
        THEN CHOOSE i \in 1..Len(MatchingConverters) :
                /\ Rejects(MatchingConverters[i])
                /\ \A j \in 1..(i - 1) : ~Rejects(MatchingConverters[j])
        ELSE 0

\* C27: Convert stops at the first matching converter that fails: it returns
\* that converter's error, has invoked the matching converters up to it and
\* none after it, and the writes of those before it stay.
C27_StopsAtFirstError ==
    /\ (cpc = "c_ret" /\ FirstRejecting # 0) =>
          /\ cret = "err"
          /\ cerr = MatchingConverters[FirstRejecting].id
          /\ cinvoked = SubSeq(MatchingConverters, 1, FirstRejecting)
          /\ cwrites = [i \in 1..(FirstRejecting - 1) |->
                           MatchingConverters[i].id]
    /\ (cpc = "c_ret" /\ cret = "err") => FirstRejecting # 0

\* Convert returned the error of the second of three matching converters
C27_Witness ==
    /\ cpc = "c_ret"
    /\ cret = "err"
    /\ Len(MatchingConverters) = 3
    /\ FirstRejecting = 2
    /\ Len(cwrites) = 1

\* C29: every failed conversion of a device record or a sensor adds exactly
\* one to data_errors_total{type=mapping_error}, a successful conversion
\* leaves the counter alone, and the error stays inside the cycle: the pass
\* goes on to return normally and no fetch error is counted.
C29_MappingErrorCounted ==
    /\ [](/\ xcounters.mapping_error
                = xbefore.mapping_error + Cardinality(xfailed)
          /\ xfailed # {} =>
                /\ xpc \in {"p_dev", "p_sensor", "u_ret"}
                /\ ~xfetchFailed
                /\ xcounters.fetch_error = xbefore.fetch_error)
    /\ [][(xpc \in {"p_dev", "p_sensor"} /\ xvalues' # xvalues)
             => xcounters' = xcounters]_vars

\* a cycle returned after the conversion of a device record and of a sensor
\* of another device had failed
C29_Witness ==
    /\ xpc = "u_ret"
    /\ Cardinality(xfailed) = 2
    /\ \E it \in xfailed : it[2] = Detail
    /\ \E it \in xfailed : it[2] # Detail
    /\ xcounters.mapping_error = xbefore.mapping_error + 2

\* C28: no retry inside a cycle: GetMe and GetDevice of each device are
\* called at most once, in order, and nothing is called after a call failed;
\* a failed fetch does not end the loop, which only stops at its select on a
\* cancelled context, and every cycle starts its fetch afresh.
C28_NoRetry ==
    /\ [](/\ \A i, j \in 1..Len(xlog) : i # j => xlog[i].call # xlog[j].call
          /\ \A i \in 1..Len(xlog) :
                /\ xlog[i].call = IF i = 1 THEN "me" ELSE UserDevices[i - 1]
                /\ ~xlog[i].ok => i = Len(xlog)
          /\ xpc = "stopped" => xctx)
    /\ [][/\ xcycle' # xcycle => (xlog' = <<>> /\ xpc' = "u_me")
          /\ xpc' = "stopped" => (xpc \in {"select", "stopped"} /\ xctx)
          /\ (xpc = "u_ret" /\ xfetchFailed) => xpc' \in {"u_ret", "select"}]_vars

\* the cycle after a failed one calls the provider again
C28_Witness ==
    /\ xprevFailed
    /\ xcycle = 2
    /\ xpc = "u_dev"
    /\ Len(xlog) = 2
    /\ xlog[1].call = "me"

\* C31: every collector a GetOrCreate<Kind> call has returned for a name is
\* registered with the exposition surface under that name, under every
\* interleaving and also when a registration attempt failed.
C31_ReturnedIsExposed ==
    \A n \in Names : \A id \in returned[n] :
        \E e \in exposition : e.id = id /\ e.fq = FQName(Namespace, n)

\* C32: every collector stored in the map is registered with the exposition
\* surface, and a failed exposition registration leaves the map unchanged.
C32_StoredIsExposed ==
    /\ [](\A n \in Names :
            collectors[n] # NoCollector => collectors[n] \in exposition)
    /\ [][regErrors' # regErrors => collectors' = collectors]_vars

\* a registration was refused while the map holds a collector
C32_Witness ==
    /\ regErrors # {}
    /\ \E n \in Names : collectors[n] # NoCollector
    /\ \E n \in Names : collectors[n] = NoCollector

\* C33: no GetOrCreate<Kind> call panics and none returns a collector of
\* another kind than the one requested, also when the name is already
\* registered under a different kind.
C33_NoPanicOnOtherKind ==
    /\ ~panicked
    /\ \A p \in Threads : pc[p] # "panic"
    /\ lastHit # NoHit => lastHit.coll.kind = lastHit.kind

\* the goroutine waits inside RLock or Lock for something that is not there
QBlocked(p) ==
    \/ qpc[p] = "q_rlock" /\ ~RLockReady(qmu, p)
    \/ qpc[p] = "q_lock" /\ ~LockAnnounceReady(qmu)
    \/ qpc[p] = "q_wait" /\ ~LockReady(qmu, p)

\* C34: an Evaluate call whose callback calls AddRule, RemoveRule or Evaluate
\* of the same engine never ends up blocked for ever: there is no state in
\* which the evaluating goroutine and every other goroutine inside a call of
\* the engine wait for the lock.
C34_CallbackCannotDeadlock ==
    ~(/\ qpc[Poller] # "idle"
      /\ \A p \in QThreads : qpc[p] # "idle" => QBlocked(p))

\* C35: an Evaluate call works on an atomic snapshot of the rule set: while
\* it runs no AddRule or RemoveRule takes effect, it visits only rules of the
\* set it started with, applies no rule twice, and on return has applied
\* every rule of that set that targets the metric.
C35_EvaluateSeesSnapshot ==
    /\ [](/\ epc \in {"e_loop", "e_cond", "e_action"} =>
                /\ rules = esnap
                /\ etodo \subseteq StoredIds(esnap)
          /\ \A id \in RuleIds : econd[id] <= 1 /\ efired[id] <= 1
          /\ epc = "e_ret" =>
                \A id \in RuleIds :
                    econd[id] = IF Targets(esnap[id], emetric) THEN 1 ELSE 0)
    /\ [][(Poller \in emu.readers) => rules' = rules]_vars

\* an Evaluate call over two applied rules has returned and a write to the
\* rule set took effect after it
C35_Witness ==
    /\ epc = "e_ret"
    /\ Cardinality({id \in RuleIds : econd[id] = 1}) >= 2
    /\ rules # esnap
    /\ elast # NoOp

\* C36: Evaluate leaves the rule set unchanged: no step of Evaluate writes
\* the rules, and a rule whose action failed is still stored, enabled and
\* the same as before the call.
C36_EvaluateKeepsRules ==
    /\ [](epc \in {"e_loop", "e_cond", "e_action"} =>
             \A id \in eerrs : rules[id] = esnap[id] /\ rules[id].Enabled)
    /\ [][(epc' # epc \/ etodo' # etodo \/ eerrs' # eerrs) => rules' = rules]_vars

\* Evaluate is about to return after an action failed and another succeeded
C36_Witness ==
    /\ epc = "e_loop"
    /\ etodo = {}
    /\ eerrs # {}
    /\ \E id \in RuleIds : efired[id] = 1 /\ id \notin eerrs
    /\ rules = esnap

\* C37: request accounting of the poll loop: a cycle increments
\* api_requests_total once, at its start, and by its end exactly one of
\* api_requests_success_total and api_errors_total{type=fetch_error}, once;
\* between cycles requests = success + fetch_error.
C37_RequestAccounting ==
    /\ xcounters.requests = xcycle
    /\ xpc \notin {"start", "select", "stopped"} =>
          xcounters.requests = xbefore.requests + 1
    /\ xpc \in {"u_me", "u_dev", "u_fail", "u_ok"} =>
          /\ xcounters.success = xbefore.success
          /\ xcounters.fetch_error = xbefore.fetch_error
    /\ xpc \in {"p_dev", "p_sensor", "u_ret"} =>
          \/ /\ xcounters.success = xbefore.success + 1
             /\ xcounters.fetch_error = xbefore.fetch_error
             /\ ~xfetchFailed
          \/ /\ xcounters.success = xbefore.success
             /\ xcounters.fetch_error = xbefore.fetch_error + 1
             /\ xfetchFailed
    /\ xpc \in {"u_ret", "select", "stopped"} =>
          xcounters.requests = xcounters.success + xcounters.fetch_error

\* two cycles are complete, one with a failed fetch and one without
C37_Witness ==
    /\ xpc = "u_ret"
    /\ xcounters.requests = 2
    /\ xcounters.success = 1
    /\ xcounters.fetch_error = 1

BatteryRuleIds == {"battery_ok", "battery_low", "battery_critical_low"}

\* C39: the three battery rules of initAlertEngine partition the readings of
\* the battery sensor: for every reading exactly one of their conditions is
\* true (battery_ok from 15, battery_low from 10 to under 15,
\* battery_critical_low under 10), and exactly that rule fires, once.
C39_BatteryRulesPartition ==
    (jpc = "e_ret" /\ JobEvaluated.Name = BatterySensorName) =>
        LET v == JobEvaluated.Value
            band == IF v >= 15 * Scale THEN "battery_ok"
                    ELSE IF v >= 10 * Scale THEN "battery_low"
                    ELSE "battery_critical_low"
        IN /\ {id \in BatteryRuleIds :
                  Holds(jrules[id].Condition, JobEvaluated)} = {band}
           /\ \A id \in BatteryRuleIds :
                  jfired[id] = IF id = band THEN 1 ELSE 0

\* readings at the limits were evaluated: 15.0 has just fired battery_ok
\* after 10.0 was evaluated
C39_Witness ==
    /\ jpc = "e_ret"
    /\ JobEvaluated = [Name |-> BatterySensorName, Value |-> 15 * Scale]
    /\ jfired["battery_ok"] = 1
    /\ jidx = 2
    /\ jcycle[1] = [Name |-> BatterySensorName, Value |-> 10 * Scale]

====
